---- MODULE Spec2Model ----
(***************************************************************************)
(* A model of the nanobot agent gateway (lukelzlz/nanobot).                *)
(*                                                                         *)
(*   Spec         the agent loop: AgentLoop.run, _process_message,         *)
(*                _process_system_message and process_direct, as asyncio   *)
(*                tasks that interleave at their awaits.                   *)
(*   SpecSummary  the conversation summarizer: ContextBuilder.             *)
(*                _maybe_summarize and the ConversationSummarizer          *)
(*                functions it calls.                                      *)
(*                                                                         *)
(* An action is the code one task runs between two suspension points.      *)
(* Strings that the code takes apart (channel names, chat ids, session     *)
(* keys) are sequences of chunks, ":" being a chunk of its own; strings    *)
(* the code only copies or prefixes are TLA+ strings.                      *)
(***************************************************************************)
EXTENDS Naturals, Integers, Sequences, FiniteSets, TLC

VARIABLES
    inbound,      \* MessageBus inbound queue (FIFO of InboundMessage)
    outbound,     \* MessageBus outbound queue
    nextSeq,      \* arrival counter: the next message is the nextSeq-th to arrive
    task,         \* per asyncio task: the _process_message call it is inside
    sessions,     \* SessionManager cache: session key -> history
    disk,         \* session files: session key -> saved history
    tool_ctx,     \* routing context of the shared message / spawn tools
    last,         \* how the most recent turn ended (a record of it, for the properties)
    sumCfg,       \* ContextBuilder.auto_summary_config and summarizer presence
    sumHist,      \* the history handed to the summarizer
    sumCall,      \* per caller: the _maybe_summarize call it is inside
    summarizing,  \* ContextBuilder._summarizing_sessions
    llmCalls,     \* number of provider.chat calls made by the summarizer
    sumOut,       \* the last direct call of a summarizer function and its result
    fs,           \* the filesystem: directories, files and symbolic links
    toolEnv,      \* the process's working directory and ExecTool.restrict_to_workspace
    toolCall,     \* the last call of a native tool: its arguments, result and effects
    nToolCalls,   \* number of native tool calls made
    mcpConfig,    \* MCPConfig and the server's MCPServerConfig
    transports,   \* MCPClient._transports: server name -> transport
    mcpTools,     \* MCPClient._tools: the names that have a cache entry
    mcpResources, \* MCPClient._resources: the names that have a cache entry
    serverConfigs,     \* MCPClient._server_configs: the names stored
    reconnectAttempts, \* MCPClient._reconnect_attempts (a missing entry is 0)
    mcpLock,      \* MCPClient._lock: "free" or the task that holds it
    mcpPc,        \* per task of the client: the await it is suspended at
    mcpSeen,      \* what the read path or tool call that has just run returned
    backoff,      \* the reconnect attempts as an observer counts them
    mcpLeaked,    \* a transport was started and is neither registered nor stopped
    runLoop,      \* AgentLoop.run(): _running, its position, the inbound queue
    cron,         \* CronTool: the store in memory, the store file, the last call
    git,          \* GitUpdater: the repository, its state, the store file, the last run
    skills,       \* the skill directories, and the last reload_context() call
    stdio         \* StdioTransport: process, pending map, the requests' outcomes

agentVars == <<inbound, outbound, nextSeq, task, sessions, disk, tool_ctx, last>>
sumVars == <<sumCfg, sumHist, sumCall, summarizing, llmCalls, sumOut>>
toolVars == <<fs, toolEnv, toolCall, nToolCalls>>
mcpVars == <<mcpConfig, transports, mcpTools, mcpResources, serverConfigs,
             reconnectAttempts, mcpLock, mcpPc, mcpSeen, backoff, mcpLeaked>>
auxVars == <<runLoop, cron, git, skills, stdio>>
vars == <<inbound, outbound, nextSeq, task, sessions, disk, tool_ctx, last,
          sumCfg, sumHist, sumCall, summarizing, llmCalls, sumOut,
          fs, toolEnv, toolCall, nToolCalls,
          mcpConfig, transports, mcpTools, mcpResources, serverConfigs,
          reconnectAttempts, mcpLock, mcpPc, mcpSeen, backoff, mcpLeaked,
          runLoop, cron, git, skills, stdio>>

\* What the actions of one component leave alone.
offAgent == <<sumVars, toolVars, mcpVars, auxVars>>
offSummary == <<agentVars, toolVars, mcpVars, auxVars>>
offTools == <<agentVars, sumVars, mcpVars, auxVars>>
offMcp == <<agentVars, sumVars, toolVars, auxVars>>
offRun == <<agentVars, sumVars, toolVars, mcpVars, cron, git, skills, stdio>>
offCron == <<agentVars, sumVars, toolVars, mcpVars, runLoop, git, skills, stdio>>
offGit == <<agentVars, sumVars, toolVars, mcpVars, runLoop, cron, skills, stdio>>
offSkills == <<agentVars, sumVars, toolVars, mcpVars, runLoop, cron, git, stdio>>
offStdio == <<agentVars, sumVars, toolVars, mcpVars, runLoop, cron, git, skills>>

(***************************************************************************)
(* Bounds of the model.                                                    *)
(***************************************************************************)
\* AgentLoop.max_iterations as configured for the model (the default is 20).
MaxIterations == 2
\* The most tool calls one LLM response carries.
MaxCalls == 2
\* The most messages that arrive (bus publishes plus process_direct calls).
MaxArrivals == 2

None == "<None>"

Range(s) == {s[i] : i \in 1..Len(s)}

(***************************************************************************)
(* Messages and strings.                                                   *)
(***************************************************************************)
Colon == <<":">>

\* InboundMessage.session_key: "<channel>:<chat_id>".
SessionKey(msg) == msg.channel \o Colon \o msg.chat_id

\* str.split(":", 1) on a string that holds a colon: the part before the first
\* colon and everything after it.
FirstColon(s) == CHOOSE i \in 1..Len(s) : s[i] = ":" /\ \A j \in 1..(i - 1) : s[j] # ":"

\* _process_system_message, lines 408-416: the origin encoded in chat_id.
ParseOrigin(chat_id) ==
    IF ":" \in Range(chat_id)
    THEN [channel |-> SubSeq(chat_id, 1, FirstColon(chat_id) - 1),
          chat_id |-> SubSeq(chat_id, FirstColon(chat_id) + 1, Len(chat_id))]
    ELSE [channel |-> <<"cli">>, chat_id |-> chat_id]

InboundMessage(channel, sender_id, chat_id, content) ==
    [channel |-> channel, sender_id |-> sender_id, chat_id |-> chat_id, content |-> content]

OutboundMessage(channel, chat_id, content) ==
    [channel |-> channel, chat_id |-> chat_id, content |-> content]

\* What the channel adapters and the subagent manager publish on the bus.
BusMessages ==
    { InboundMessage(<<"telegram">>, "alice", <<"42">>, "Hello"),
      InboundMessage(<<"system">>, "subagent", <<"telegram", ":", "42">>, "Task done"),
      InboundMessage(<<"system">>, "subagent", <<"direct">>, "Task done") }

\* The gateway's callbacks: on_cron_job and on_heartbeat call process_direct with
\* a message and a session_key, leaving channel and chat_id at their defaults.
DirectCalls ==
    [cron |-> [content |-> "ping", session_key |-> <<"cron", ":", "job1">>,
               channel |-> <<"cli">>, chat_id |-> <<"direct">>],
     heartbeat |-> [content |-> "beat", session_key |-> <<"heartbeat">>,
                    channel |-> <<"cli">>, chat_id |-> <<"direct">>]]

Tasks == {"run", "cron", "heartbeat"}
DirectTasks == {"cron", "heartbeat"}

LLMMessage(role, content) ==
    [role |-> role, content |-> content, tool_call_id |-> None, name |-> None,
     tool_calls |-> <<>>]

\* Session.add_message: one record appended to the session (seq is the arrival
\* number of the message whose turn appended it; the program does not store it).
SessionEntry(role, content, seq) == [role |-> role, content |-> content, seq |-> seq]

\* Session.get_history: the records as LLM messages.
GetHistory(h) == [i \in 1..Len(h) |-> LLMMessage(h[i].role, h[i].content)]

\* SessionManager.get_or_create: the cached session, or a new empty one.
GetOrCreate(s, key) == IF key \in DOMAIN s THEN s ELSE s @@ (key :> <<>>)


(***************************************************************************)
(* ContextBuilder: the message list of one turn.                           *)
(***************************************************************************)
SystemPrompt == LLMMessage("system", "SYSTEM PROMPT")

\* ContextBuilder.build_messages with auto-summary off (the gateway passes no
\* auto_summary_config): [system] ++ history ++ [user_current].
BuildMessages(history, current_message) ==
    <<SystemPrompt>> \o history \o <<LLMMessage("user", current_message)>>

\* ContextBuilder.add_assistant_message.
AddAssistantMessage(messages, content, tool_calls) ==
    Append(messages,
           [role |-> "assistant", content |-> IF content = None THEN "" ELSE content,
            tool_call_id |-> None, name |-> None, tool_calls |-> tool_calls])

\* add_tool_result putting the tool's name where the call's id belongs.
AddToolResultByName(messages, tool_call_id, tool_name, result) ==
    Append(messages,
           [role |-> "tool", content |-> result, tool_call_id |-> tool_name,
            name |-> tool_name, tool_calls |-> <<>>])

\* ContextBuilder.add_tool_result.
AddToolResult(messages, tool_call_id, tool_name, result) ==
    Append(messages,
           [role |-> "tool", content |-> result, tool_call_id |-> tool_call_id,
            name |-> tool_name, tool_calls |-> <<>>])

(***************************************************************************)
(* The LLM and the tools, as the loop sees them.                           *)
(***************************************************************************)
ToolNames == <<"list_dir", "read_file", "exec", "message">>

\* The tool calls of the response to the it-th LLM call of a turn, k of them.
ToolCallRequests(it, k) ==
    [j \in 1..k |-> [id |-> "call_" \o ToString(it) \o "_" \o ToString(j), name |-> ToolNames[((j - 1) % 4) + 1],
                     arguments |-> "{}"]]

\* provider.chat answers: a text (or no content at all), or 1..MaxCalls tool calls.
LLMResponses(it) ==
    {[content |-> c, tool_calls |-> <<>>] : c \in {None, "Hi there!"}}
    \cup {[content |-> None, tool_calls |-> ToolCallRequests(it, k)] : k \in 1..MaxCalls}

\* ToolRegistry.execute returns a string (an "Error: ..." string when the tool
\* fails); the loop copies it into the tool message and never looks at it.
ToolResults == {"ok"}

\* _process_message, lines 357-367: the calls in the wire format.
ToolCallDicts(tool_calls) ==
    [j \in 1..Len(tool_calls) |->
        [id |-> tool_calls[j].id, type |-> "function",
         function |-> [name |-> tool_calls[j].name, arguments |-> tool_calls[j].arguments]]]

(***************************************************************************)
(* One turn: _process_message and _process_system_message.                 *)
(***************************************************************************)
NoAddress == [channel |-> <<>>, chat_id |-> <<>>]

IdleTurn ==
    [pc |-> "idle", msg |-> InboundMessage(<<>>, "", <<>>, ""), seq |-> 0,
     arg_key |-> <<>>, key |-> <<>>, reply_to |-> NoAddress, messages |-> <<>>,
     base |-> 0, iteration |-> 0, pending |-> <<>>, resps |-> <<>>]

IsSystem(msg) == msg.channel = <<"system">>

\* A turn working on msg.session_key whatever the channel.
TurnSessionKeyOfMessage(msg) == SessionKey(msg)

\* The session a turn works on: msg.session_key (line 320), for a system
\* message the origin's key (line 419).
TurnSessionKey(msg) ==
    IF IsSystem(msg)
    THEN ParseOrigin(msg.chat_id).channel \o Colon \o ParseOrigin(msg.chat_id).chat_id
    ELSE SessionKey(msg)

\* Where a turn's reply and the tool context go: lines 325-329 and 393-397,
\* for a system message lines 425-429 and 487-491.
TurnAddress(msg) ==
    IF IsSystem(msg)
    THEN ParseOrigin(msg.chat_id)
    ELSE [channel |-> msg.channel, chat_id |-> msg.chat_id]

\* The reply when the loop ended without a text: line 386, for a system
\* message line 480.
FinalContent(msg, final_content) ==
    IF final_content # None THEN final_content
    ELSE IF IsSystem(msg) THEN "Background task completed."
    ELSE "I've completed processing but have no response to give."

\* The user record saved to the session: line 389, for a system message line 483.
UserRecord(msg) ==
    IF IsSystem(msg) THEN "[System: " \o msg.sender_id \o "] " \o msg.content
    ELSE msg.content

\* run(), lines 246-253: the reply to a message whose processing raised.
ErrorReply(msg, e) ==
    OutboundMessage(msg.channel, msg.chat_id, "Sorry, I encountered an error: " \o e)

\* The end of a turn that saves the session before it appends the pair.
EndTurnSavedFirst(t, turn, final, sess) ==
    LET final_content == FinalContent(turn.msg, final)
        s2 == [sess EXCEPT ![turn.key] =
                  @ \o << SessionEntry("user", UserRecord(turn.msg), turn.seq),
                          SessionEntry("assistant", final_content, turn.seq) >>]
        response == OutboundMessage(turn.reply_to.channel, turn.reply_to.chat_id,
                                    final_content)
    IN  /\ sessions' = s2
        /\ disk' = [k \in DOMAIN disk \cup {turn.key} |->
                        IF k = turn.key THEN sess[turn.key] ELSE disk[k]]
        /\ outbound' = IF t = "run" THEN Append(outbound, response @@ [seq |-> turn.seq])
                       ELSE outbound
        /\ task' = [task EXCEPT ![t] = IdleTurn]
        /\ last' = [status |-> "ok", by |-> t, msg |-> turn.msg, seq |-> turn.seq,
                     arg_key |-> turn.arg_key, key |-> turn.key, before |-> sess[turn.key],
                     response |-> response, llm_calls |-> turn.iteration,
                     final |-> final, tool_rounds |-> Len(turn.resps)]

\* Lines 388-397 (483-491): save the turn to the session and return the reply;
\* run() publishes it (line 245), process_direct returns its content (line 520).
EndTurn(t, turn, final, sess) ==
    LET final_content == FinalContent(turn.msg, final)
        s2 == [sess EXCEPT ![turn.key] =
                  @ \o << SessionEntry("user", UserRecord(turn.msg), turn.seq),
                          SessionEntry("assistant", final_content, turn.seq) >>]
        response == OutboundMessage(turn.reply_to.channel, turn.reply_to.chat_id,
                                    final_content)
    IN  /\ sessions' = s2
        /\ disk' = [k \in DOMAIN disk \cup {turn.key} |->
                        IF k = turn.key THEN s2[turn.key] ELSE disk[k]]
        /\ outbound' = IF t = "run" THEN Append(outbound, response @@ [seq |-> turn.seq])
                       ELSE outbound
        /\ task' = [task EXCEPT ![t] = IdleTurn]
        /\ last' = [status |-> "ok", by |-> t, msg |-> turn.msg, seq |-> turn.seq,
                     arg_key |-> turn.arg_key, key |-> turn.key, before |-> sess[turn.key],
                     response |-> response, llm_calls |-> turn.iteration,
                     final |-> final, tool_rounds |-> Len(turn.resps)]

\* A tool loop that tests the cap with <= and so runs one more iteration.
LoopOrEndOneMore(t, turn, sess) ==
    IF turn.iteration <= MaxIterations
    THEN /\ task' = [task EXCEPT ![t] = [turn EXCEPT !.pc = "llm", !.iteration = @ + 1]]
         /\ sessions' = sess
         /\ UNCHANGED <<disk, outbound, last>>
    ELSE EndTurn(t, turn, None, sess)

\* The head of the tool loop, line 344 (443): the next LLM call, or the end of
\* the turn when the cap is reached.
LoopOrEnd(t, turn, sess) ==
    IF turn.iteration < MaxIterations
    THEN /\ task' = [task EXCEPT ![t] = [turn EXCEPT !.pc = "llm", !.iteration = @ + 1]]
         /\ sessions' = sess
         /\ UNCHANGED <<disk, outbound, last>>
    ELSE EndTurn(t, turn, None, sess)

\* _process_message up to its first await on the LLM: lines 314-352 (406-450).
\* raises: building the messages raised (reading a bootstrap file failed);
\* run() answers with the error reply, process_direct lets it propagate.
BeginTurn(t, msg, seq, arg_key, raises) ==
    LET key == TurnSessionKey(msg)
        sess == GetOrCreate(sessions, key)
        turn == [IdleTurn EXCEPT
                    !.msg = msg, !.seq = seq, !.arg_key = arg_key, !.key = key,
                    !.reply_to = TurnAddress(msg),
                    !.messages = BuildMessages(GetHistory(sess[key]), msg.content),
                    !.base = Len(sess[key]) + 2]
    IN  /\ tool_ctx' = TurnAddress(msg)
        /\ IF raises
           THEN /\ sessions' = sess
                /\ outbound' = IF t = "run"
                               THEN Append(outbound,
                                           ErrorReply(msg, "boom") @@ [seq |-> seq])
                               ELSE outbound
                /\ last' = [status |-> "raised", by |-> t, msg |-> msg, seq |-> seq,
                             arg_key |-> arg_key, key |-> key, before |-> sess[key],
                             response |-> OutboundMessage(<<>>, <<>>, ""),
                             llm_calls |-> 0, final |-> None, tool_rounds |-> 0]
                /\ UNCHANGED <<task, disk>>
           ELSE LoopOrEnd(t, turn, sess)


(***************************************************************************)
(* The agent's tasks.                                                      *)
(***************************************************************************)
\* A channel adapter or the subagent manager publishes an inbound message.
Publish(m) ==
    /\ nextSeq <= MaxArrivals
    /\ inbound' = Append(inbound, [msg |-> m, seq |-> nextSeq])
    /\ nextSeq' = nextSeq + 1
    /\ UNCHANGED <<outbound, task, sessions, disk, tool_ctx, last>>
    /\ UNCHANGED offAgent

\* run(), lines 233-253: take the next inbound message and process it.
RunConsume ==
    /\ task["run"].pc = "idle"
    /\ inbound # <<>>
    /\ inbound' = Tail(inbound)
    /\ \E raises \in BOOLEAN :
          BeginTurn("run", Head(inbound).msg, Head(inbound).seq, <<>>, raises)
    /\ UNCHANGED nextSeq
    /\ UNCHANGED offAgent

\* process_direct, lines 493-519, called by on_cron_job or on_heartbeat.
ProcessDirect(t) ==
    /\ task[t].pc = "idle"
    /\ nextSeq <= MaxArrivals
    /\ nextSeq' = nextSeq + 1
    /\ LET d == DirectCalls[t]
           msg == InboundMessage(d.channel, "system", d.chat_id, d.content)
       IN  \E raises \in BOOLEAN : BeginTurn(t, msg, nextSeq, d.session_key, raises)
    /\ UNCHANGED inbound
    /\ UNCHANGED offAgent

\* provider.chat returns: lines 355-383 (452-477) up to the next await.
LLMRespond(t) ==
    /\ task[t].pc = "llm"
    /\ \E response \in LLMResponses(task[t].iteration) :
          IF response.tool_calls # <<>>
          THEN /\ task' = [task EXCEPT ![t] =
                     [@ EXCEPT !.pc = "tool",
                               !.messages = AddAssistantMessage(
                                   @, response.content, ToolCallDicts(response.tool_calls)),
                               !.pending = response.tool_calls,
                               !.resps = Append(@, response.tool_calls)]]
               /\ UNCHANGED <<sessions, disk, outbound, last>>
          ELSE EndTurn(t, task[t], response.content, sessions)
    /\ UNCHANGED <<inbound, nextSeq, tool_ctx>>
    /\ UNCHANGED offAgent

\* tools.execute returns: lines 376-379 (471-474), then the next tool call, the
\* next LLM call or the end of the turn.
ToolReturn(t) ==
    /\ task[t].pc = "tool"
    /\ \E result \in ToolResults :
          LET tool_call == Head(task[t].pending)
              turn == [task[t] EXCEPT
                          !.messages = AddToolResult(@, tool_call.id, tool_call.name, result),
                          !.pending = Tail(@)]
          IN  IF turn.pending # <<>>
              THEN /\ task' = [task EXCEPT ![t] = turn]
                   /\ UNCHANGED <<sessions, disk, outbound, last>>
              ELSE LoopOrEnd(t, turn, sessions)
    /\ UNCHANGED <<inbound, nextSeq, tool_ctx>>
    /\ UNCHANGED offAgent

(***************************************************************************)
(* ConversationSummarizer (summary.py) and ContextBuilder._maybe_summarize.*)
(*                                                                         *)
(* A text is a label (str) and what the summarizer measures of the text:   *)
(* a, its ASCII characters outside the blocks the cleaning removes; n, its *)
(* non-ASCII characters; j, its ASCII characters inside fenced or JSON     *)
(* blocks and tool-trace lines, which the cleaning removes.                *)
(***************************************************************************)
\* The longest history handed to the summarizer.
MaxHist == 3

\* _calculate_thresholds, line 102: T2 := T1 + 200 when T2 <= T1.
T2Margin == 200

Text(str, a, n, j) == [str |-> str, a |-> a, n |-> n, j |-> j]

EmptyText == Text("", 0, 0, 0)

\* Python's truth of a string: it is not empty.
NonEmpty(text) == text.a + text.n + text.j > 0

\* An optional text: None, or a text.
NoText == [some |-> FALSE, text |-> EmptyText]
Some(text) == [some |-> TRUE, text |-> text]

\* Python's truth of a str | None.
Truthy(opt) == opt.some /\ NonEmpty(opt.text)

SumMsg(role, content) == [role |-> role, content |-> content]

\* The messages histories are made of.
SumMessages ==
    { SumMsg("user", Text("Hello", 5, 0, 0)),
      SumMsg("assistant", Text("Hi + 2 CJK characters", 3, 2, 0)),
      SumMsg("user", Text("fenced json block", 0, 0, 16)),
      SumMsg("assistant", EmptyText),
      SumMsg("tool", Text("tool out", 8, 0, 0)),
      SumMsg("system", Text("ok", 2, 0, 0)) }

RECURSIVE SeqsUpTo(_, _)
SeqsUpTo(S, n) ==
    IF n = 0 THEN {<<>>}
    ELSE LET shorter == SeqsUpTo(S, n - 1)
         IN  shorter \cup {Append(h, m) : h \in {x \in shorter : Len(x) = n - 1}, m \in S}

Histories == SeqsUpTo(SumMessages, MaxHist)

\* auto_summary_config as the tests and the configuration set it.
SumConfigs ==
    { [enabled |-> e, has_summarizer |-> h, threshold_low |-> t[1], threshold_high |-> t[2]] :
        e \in BOOLEAN, h \in BOOLEAN, t \in {<<1, 2>>, <<2, 4>>, <<3, 2>>, <<2, 2>>} }

\* An estimate that rounds the ASCII quarter up.
EstimateTokensCeil(text) ==
    IF text.a + text.n + text.j = 0 THEN 0
    ELSE ((text.a + text.j + 3) \div 4) + text.n

\* _estimate_tokens, lines 72-79.
EstimateTokens(text) ==
    IF ~NonEmpty(text) THEN 0
    ELSE LET ascii_chars == text.a + text.j
             non_ascii == (text.a + text.n + text.j) - ascii_chars
             estimate == (ascii_chars \div 4) + non_ascii
         IN  IF estimate < 1 THEN 1 ELSE estimate

\* _calculate_thresholds, lines 98-104.
CalculateThresholds(threshold_low, threshold_high) ==
    IF threshold_high <= threshold_low
    THEN <<threshold_low, threshold_low + T2Margin>>
    ELSE <<threshold_low, threshold_high>>

\* _remove_json_blocks then _remove_tool_traces, lines 213-214: the fenced and
\* JSON blocks and the tool-trace lines are taken out of the text.
RemoveBlocksAndTraces(text) ==
    IF text.j = 0 THEN text
    ELSE Text(IF text.a + text.n = 0 THEN "" ELSE text.str \o " (cleaned)", text.a, text.n, 0)

\* _clean_message_content, lines 200-216.
CleanMessageContent(msg, for_tail) ==
    IF msg.role = "tool" THEN NoText
    ELSE IF ~NonEmpty(msg.content) THEN NoText
    ELSE IF msg.role = "system" THEN (IF for_tail THEN NoText ELSE Some(msg.content))
    ELSE Some(RemoveBlocksAndTraces(msg.content))

\* _count_tokens, lines 258-263.
RECURSIVE CountTokens(_)
CountTokens(messages) ==
    IF messages = <<>> THEN 0
    ELSE LET content == CleanMessageContent(Head(messages), FALSE)
         IN  (IF Truthy(content) THEN EstimateTokens(content.text) ELSE 0)
             + CountTokens(Tail(messages))

\* should_summarize triggering at the threshold itself.
ShouldSummarizeAtThreshold(history, threshold_low, threshold_high) ==
    CountTokens(history) >= CalculateThresholds(threshold_low, threshold_high)[2]

\* should_summarize, lines 282-289.
ShouldSummarize(history, threshold_low, threshold_high) ==
    CountTokens(history) > CalculateThresholds(threshold_low, threshold_high)[2]

\* The walk from the newest message backwards, lines 377-389 (and 198-208,
\* 426-438): the indices kept and their token total.
RECURSIVE TailWalk(_, _, _, _, _)
TailWalk(history, i, tail_tokens, preserved, retain_tokens) ==
    IF i < 1 THEN [indices |-> preserved, tokens |-> tail_tokens]
    ELSE LET content == CleanMessageContent(history[i], TRUE)
         IN  IF ~Truthy(content)
             THEN TailWalk(history, i - 1, tail_tokens, preserved, retain_tokens)
             ELSE IF tail_tokens + EstimateTokens(content.text) > retain_tokens
             THEN [indices |-> preserved, tokens |-> tail_tokens]
             ELSE TailWalk(history, i - 1, tail_tokens + EstimateTokens(content.text),
                           <<i>> \o preserved, retain_tokens)

PreservedTail(history, retain_tokens) ==
    TailWalk(history, Len(history), 0, <<>>, retain_tokens)

\* The summary message, line 393.
SummaryMessage(summary) ==
    SumMsg("assistant",
           Text("[AutoSummary]\n" \o summary.str, 14 + summary.a, summary.n, summary.j))

\* apply_summary, lines 374-404.
ApplySummary(history, summary, retain_tokens) ==
    LET preserved_indices == PreservedTail(history, retain_tokens).indices
    IN  <<SummaryMessage(summary)>>
        \o [k \in 1..Len(preserved_indices) |-> history[preserved_indices[k]]]

\* A fallback that keeps the whole history.
TruncateToTailKeepsAll(history, retain_tokens) == history

\* truncate_to_tail, lines 423-447.
TruncateToTail(history, retain_tokens) ==
    LET preserved_indices == PreservedTail(history, retain_tokens).indices
    IN  [k \in 1..Len(preserved_indices) |-> history[preserved_indices[k]]]

\* _build_summary_source, lines 228-246, is empty: no message gives a line.
SummarySourceEmpty(messages) ==
    \A k \in 1..Len(messages) :
        \/ messages[k].role = "tool"
        \/ ~NonEmpty(messages[k].content)
        \/ /\ messages[k].role \in {"user", "assistant"}
           /\ ~NonEmpty(RemoveBlocksAndTraces(messages[k].content))

\* _maybe_summarize, lines 212-215: the indices to compress.
CompressIndices(history, preserved_indices) ==
    {i \in 1..Len(history) : history[i].role # "tool" /\ i \notin Range(preserved_indices)}

SumCallers == {"a", "b"}
SummaryKeys == {None, "telegram:42", "cli:direct"}

\* The texts the summarizer's LLM call gives back once stripped (line 338-341),
\* "" for an empty or all-code answer; "raise" for a call that raises.
SummaryOutcomes == {"COMPRESSED", "", "raise"}

\* outcome: what the summarizer's LLM call of this call gave ("none": no call).
IdleCall ==
    [pc |-> "idle", session_key |-> None, result |-> <<>>, llm_calls |-> 0,
     outcome |-> "none"]

\* The end of a _maybe_summarize call that leaves the in-flight set as it is.
SummaryDoneKeepsKey(c, session_key, result, calls, locked, outcome) ==
    /\ sumCall' = [sumCall EXCEPT ![c] =
           [pc |-> "done", session_key |-> session_key, result |-> result,
            llm_calls |-> calls, outcome |-> outcome]]
    /\ summarizing' = summarizing

\* The end of a _maybe_summarize call: its result, and the key discarded (the
\* finally clause, lines 246-248) when the call had passed the lock of lines
\* 186-187.
SummaryDone(c, session_key, result, calls, locked, outcome) ==
    /\ sumCall' = [sumCall EXCEPT ![c] =
           [pc |-> "done", session_key |-> session_key, result |-> result,
            llm_calls |-> calls, outcome |-> outcome]]
    /\ summarizing' = IF locked /\ session_key # None
                      THEN summarizing \ {session_key} ELSE summarizing

\* _maybe_summarize, lines 167-233, up to its await on the LLM (which
\* summarize() reaches only with a source text, line 312).
MaybeSummarize(c, session_key) ==
    /\ sumCall[c].pc = "idle"
    /\ LET history == sumHist
           thresholds == CalculateThresholds(sumCfg.threshold_low, sumCfg.threshold_high)
           preserved == PreservedTail(history, thresholds[1])
           compress_indices == CompressIndices(history, preserved.indices)
       IN  IF ~sumCfg.enabled \/ ~sumCfg.has_summarizer
           THEN SummaryDone(c, session_key, history, 0, FALSE, "none") /\ UNCHANGED llmCalls
           ELSE IF session_key # None /\ session_key \in summarizing
           THEN SummaryDone(c, session_key, history, 0, FALSE, "none") /\ UNCHANGED llmCalls
           ELSE IF ~ShouldSummarize(history, sumCfg.threshold_low, sumCfg.threshold_high)
           THEN SummaryDone(c, session_key, history, 0, FALSE, "none") /\ UNCHANGED llmCalls
           ELSE IF compress_indices = {}
           THEN SummaryDone(c, session_key, history, 0, TRUE, "none") /\ UNCHANGED llmCalls
           ELSE IF \A i \in compress_indices : SummarySourceEmpty(<<history[i]>>)
           THEN SummaryDone(c, session_key, TruncateToTail(history, thresholds[1]), 0, TRUE,
                            "none")
                /\ UNCHANGED llmCalls
           ELSE /\ sumCall' = [sumCall EXCEPT ![c] =
                       [pc |-> "llm", session_key |-> session_key, result |-> <<>>,
                        llm_calls |-> 1, outcome |-> "none"]]
                /\ summarizing' = IF session_key # None
                                  THEN summarizing \cup {session_key} ELSE summarizing
                /\ llmCalls' = llmCalls + 1
    /\ UNCHANGED <<sumCfg, sumHist, sumOut>>
    /\ UNCHANGED offSummary

\* The summarizer's LLM call returns or raises: summarize() lines 338-352, then
\* _maybe_summarize lines 235-248.
SummaryReturns(c) ==
    /\ sumCall[c].pc = "llm"
    /\ \E outcome \in SummaryOutcomes :
          LET t1 == CalculateThresholds(sumCfg.threshold_low, sumCfg.threshold_high)[1]
              summary == IF outcome \in {"", "raise"} THEN NoText
                         ELSE Some(Text(outcome, Len(outcome), 0, 0))
          IN  SummaryDone(c, sumCall[c].session_key,
                          IF Truthy(summary) THEN ApplySummary(sumHist, summary.text, t1)
                          ELSE TruncateToTail(sumHist, t1),
                          sumCall[c].llm_calls, TRUE, outcome)
    /\ UNCHANGED <<sumCfg, sumHist, llmCalls, sumOut>>
    /\ UNCHANGED offSummary

\* apply_summary called on its own, as the tests do.
ApplySummaryCall ==
    /\ sumOut.op = "none"
    /\ \E summary \in {Text("COMPRESSED", 10, 0, 0)}, retain_tokens \in {sumCfg.threshold_low} :
          sumOut' = [op |-> "apply_summary", summary |-> summary,
                     retain_tokens |-> retain_tokens,
                     result |-> ApplySummary(sumHist, summary, retain_tokens)]
    /\ UNCHANGED <<sumCfg, sumHist, sumCall, summarizing, llmCalls>>
    /\ UNCHANGED offSummary

NoOutput == [op |-> "none", summary |-> EmptyText, retain_tokens |-> 0, result |-> <<>>]

\* The summarizer's state while only the agent loop is looked at.
SummaryIdle ==
    /\ sumCfg = [enabled |-> FALSE, has_summarizer |-> FALSE,
                 threshold_low |-> 3000, threshold_high |-> 4000]
    /\ sumHist = <<>>
    /\ sumCall = [c \in SumCallers |-> IdleCall]
    /\ summarizing = {}
    /\ llmCalls = 0
    /\ sumOut = NoOutput

(***************************************************************************)
(* The filesystem the native tools work on.                                *)
(*                                                                         *)
(* An absolute path is the sequence of its components from the root (the   *)
(* root is << >>); a path argument is a record: abs tells whether it is    *)
(* written from the root, parts are its components as written.             *)
(***************************************************************************)
\* The number of native tool calls looked at in a row.
MaxToolCalls == 2

\* How many symbolic links one resolution follows.
MaxLinks == 2

PathArg(abs, parts) == [abs |-> abs, parts |-> parts]

\* The workspace and a directory outside it.
Workspace == <<"ws">>
OutsideDir == <<"out">>

Parent(p) == IF p = <<>> THEN <<>> ELSE SubSeq(p, 1, Len(p) - 1)

\* Path.is_relative_to.
IsRelativeTo(p, base) == Len(p) >= Len(base) /\ SubSeq(p, 1, Len(base)) = base

\* Where the link ws/link points, in the layouts looked at.
LinkTargets ==
    { <<"out">>, <<"out", "secret.txt">>, <<"out", "new">>, <<"ws", "sub">> }

FsLayouts ==
    { [dirs |-> {<<>>, <<"ws">>, <<"ws", "sub">>, <<"out">>},
       files |-> {<<"ws", "a.txt">>, <<"ws", "sub", "b.txt">>, <<"out", "secret.txt">>},
       links |-> l] :
        l \in {<<>>} \cup {(<<"ws", "link">> :> t) : t \in LinkTargets} }

\* Path.resolve(): the components taken one by one from start; ".." goes to
\* the parent of what is resolved so far, a symbolic link is replaced by its
\* target, a component that does not exist is kept as written.
RECURSIVE ResolveFrom(_, _, _, _)
ResolveFrom(f, cur, rest, fuel) ==
    IF rest = <<>> THEN cur
    ELSE LET c == Head(rest)
             p == Append(cur, c)
         IN  IF c = "." THEN ResolveFrom(f, cur, Tail(rest), fuel)
             ELSE IF c = ".." THEN ResolveFrom(f, Parent(cur), Tail(rest), fuel)
             ELSE IF p \in DOMAIN f.links /\ fuel > 0
             THEN ResolveFrom(f, <<>>, f.links[p] \o Tail(rest), fuel - 1)
             ELSE ResolveFrom(f, p, Tail(rest), fuel)

\* (base / path).resolve(): an absolute path replaces the base.
Resolve(f, base, path) ==
    ResolveFrom(f, IF path.abs THEN <<>> ELSE base, path.parts, MaxLinks)

\* Path.exists(), is_file(), is_dir() on a resolved path.
Exists(f, p) == p \in f.dirs \cup f.files
IsFile(f, p) == p \in f.files
IsDir(f, p) == p \in f.dirs

\* The names the traversal patterns of _validate_path_safety match: "..",
\* a name holding "..", the URL-encoded variants.
TraversalNames == {"..", "a..b.txt", "%2e%2e"}

HasTraversalPattern(parts) == \E i \in 1..Len(parts) : parts[i] \in TraversalNames

\* _validate_path_safety(file_path, workspace) for the resolved absolute path
\* the tools hand it: "" when the path is safe, the error string otherwise.
\* (A resolved path never starts with "~", lines 45-52.)
ValidateTraversalOnly(f, file_path, workspace) ==
    IF HasTraversalPattern(file_path) THEN "Error: Path traversal detected" ELSE ""

ValidatePathSafety(f, file_path, workspace) ==
    IF HasTraversalPattern(file_path) THEN "Error: Path traversal detected"
    ELSE LET workspace_resolved == Resolve(f, <<>>, PathArg(TRUE, workspace))
             resolved_path == Resolve(f, <<>>, PathArg(TRUE, file_path))
             real_path == Resolve(f, <<>>, PathArg(TRUE, resolved_path))
         IN  IF ~IsRelativeTo(resolved_path, workspace_resolved)
             THEN "Error: Path outside workspace not allowed"
             ELSE IF ~IsRelativeTo(real_path, workspace_resolved)
             THEN "Error: Symlink path outside workspace not allowed"
             ELSE ""

\* The results that are error strings.
ErrorResults ==
    { "Error: Path traversal detected", "Error: Path outside workspace not allowed",
      "Error: Symlink path outside workspace not allowed", "Error: File not found",
      "Error: Not a file", "Error: Directory not found", "Error: Not a directory",
      "Error writing file", "Error editing file",
      "Error: old_text not found in file. Make sure it matches exactly.",
      "Error: Command blocked by safety guard (dangerous pattern detected)",
      "Error: Command blocked by safety guard (path traversal detected)",
      "Error: Command blocked by safety guard (path outside working dir)",
      "Error: Command contains shell features or uses an unsafe command",
      "Error: Working directory does not exist or is not a directory",
      "Error: Command not found" }

\* The path arguments the LLM gives the file tools.
FsPaths ==
    { PathArg(FALSE, <<"a.txt">>), PathArg(FALSE, <<"sub", "b.txt">>),
      PathArg(FALSE, <<"sub">>), PathArg(FALSE, <<".">>),
      PathArg(FALSE, <<"sub", "..", "a.txt">>),
      PathArg(FALSE, <<"..", "out", "secret.txt">>),
      PathArg(FALSE, <<"link">>), PathArg(FALSE, <<"link", "secret.txt">>),
      PathArg(FALSE, <<"link", "new.txt">>), PathArg(FALSE, <<"new", "deep.txt">>),
      PathArg(FALSE, <<"a..b.txt">>),
      PathArg(TRUE, <<"out", "secret.txt">>), PathArg(TRUE, <<"ws", "a.txt">>) }

\* What a tool call leaves behind: result is the string returned; touched, the
\* resolved paths whose content the call read, wrote or created; statted, the
\* resolved paths the call only asked the kind of; spawned, the process started.
NoSpawn == [started |-> FALSE, args |-> <<>>, cwd |-> <<>>]

CallRecord(tool, path, result, touched, statted) ==
    [tool |-> tool, path |-> path, result |-> result, touched |-> touched,
     statted |-> statted, command |-> <<>>, spawned |-> NoSpawn]

NoCall == CallRecord("none", PathArg(FALSE, <<>>), "", {}, {})

\* A file tool returns: the call is recorded, the filesystem is f2.
FileToolReturns(call, f2) ==
    /\ nToolCalls < MaxToolCalls
    /\ toolCall' = call
    /\ fs' = f2
    /\ nToolCalls' = nToolCalls + 1
    /\ UNCHANGED toolEnv
    /\ UNCHANGED offTools

\* ReadFileTool.execute with a workspace set, lines 123-161.
ReadFile(path) ==
    LET file_path == Resolve(fs, Workspace, path)
        error == ValidatePathSafety(fs, file_path, Workspace)
    IN  IF error # "" THEN FileToolReturns(CallRecord("read_file", path, error, {}, {}), fs)
        ELSE IF ~Exists(fs, file_path)
        THEN FileToolReturns(
                 CallRecord("read_file", path, "Error: File not found", {}, {file_path}), fs)
        ELSE IF ~IsFile(fs, file_path)
        THEN FileToolReturns(
                 CallRecord("read_file", path, "Error: Not a file", {}, {file_path}), fs)
        ELSE FileToolReturns(
                 CallRecord("read_file", path, "file content", {file_path}, {file_path}), fs)

\* The directories mkdir(parents=True) has to create for the directory d.
RECURSIVE MissingDirs(_, _)
MissingDirs(f, d) ==
    IF d = <<>> \/ Exists(f, d) THEN {} ELSE {d} \cup MissingDirs(f, Parent(d))

\* d or one of the directories above it is a file: mkdir fails.
RECURSIVE UnderAFile(_, _)
UnderAFile(f, d) ==
    IF IsFile(f, d) THEN TRUE ELSE IF d = <<>> THEN FALSE ELSE UnderAFile(f, Parent(d))

\* WriteFileTool.execute with a workspace set, lines 205-237: the parent
\* directory is validated, created with its own parents, then the file written.
WriteFile(path) ==
    LET file_path == Resolve(fs, Workspace, path)
        parent == Parent(file_path)
        error == ValidatePathSafety(fs, parent, Workspace)
        made == MissingDirs(fs, parent)
        f2 == [fs EXCEPT !.dirs = @ \cup made]
    IN  IF error # "" THEN FileToolReturns(CallRecord("write_file", path, error, {}, {}), fs)
        ELSE IF UnderAFile(fs, parent)
        THEN FileToolReturns(
                 CallRecord("write_file", path, "Error writing file", {}, {parent}), fs)
        ELSE IF IsDir(f2, file_path)
        THEN FileToolReturns(
                 CallRecord("write_file", path, "Error writing file", made, {file_path}), f2)
        ELSE FileToolReturns(
                 CallRecord("write_file", path, "Successfully wrote",
                            made \cup {file_path}, {}),
                 [f2 EXCEPT !.files = @ \cup {file_path}])

\* EditFileTool.execute with a workspace set, lines 277-315; occurrences is
\* content.count(old_text) for the file read.
EditFile(path, occurrences) ==
    LET file_path == Resolve(fs, Workspace, path)
        error == ValidatePathSafety(fs, file_path, Workspace)
    IN  IF error # "" THEN FileToolReturns(CallRecord("edit_file", path, error, {}, {}), fs)
        ELSE IF ~Exists(fs, file_path)
        THEN FileToolReturns(
                 CallRecord("edit_file", path, "Error: File not found", {}, {file_path}), fs)
        ELSE IF IsDir(fs, file_path)
        THEN FileToolReturns(
                 CallRecord("edit_file", path, "Error editing file", {}, {file_path}), fs)
        ELSE IF occurrences = 0
        THEN FileToolReturns(
                 CallRecord("edit_file", path,
                            "Error: old_text not found in file. Make sure it matches exactly.",
                            {file_path}, {}), fs)
        ELSE IF occurrences > 1
        THEN FileToolReturns(
                 CallRecord("edit_file", path, "Warning: old_text appears several times",
                            {file_path}, {}), fs)
        ELSE FileToolReturns(
                 CallRecord("edit_file", path, "Successfully edited", {file_path}, {}), fs)

\* The entries of the directory d: the files, directories and links in it.
Entries(f, d) ==
    {p \in f.dirs \cup f.files \cup DOMAIN f.links : p # <<>> /\ Parent(p) = d}

\* ListDirTool.execute with a workspace set, lines 356-392; item.is_dir()
\* asks the kind of what each entry resolves to.
ListDir(path) ==
    LET dir_path == Resolve(fs, Workspace, path)
        error == ValidatePathSafety(fs, dir_path, Workspace)
        items == Entries(fs, dir_path)
    IN  IF error # "" THEN FileToolReturns(CallRecord("list_dir", path, error, {}, {}), fs)
        ELSE IF ~Exists(fs, dir_path)
        THEN FileToolReturns(
                 CallRecord("list_dir", path, "Error: Directory not found", {}, {dir_path}), fs)
        ELSE IF ~IsDir(fs, dir_path)
        THEN FileToolReturns(
                 CallRecord("list_dir", path, "Error: Not a directory", {}, {dir_path}), fs)
        ELSE FileToolReturns(
                 CallRecord("list_dir", path,
                            IF items = {} THEN "Directory is empty" ELSE "listing",
                            {dir_path},
                            {Resolve(fs, <<>>, PathArg(TRUE, p)) : p \in items}), fs)

(***************************************************************************)
(* ExecTool (shell.py).  A command is the sequence of its words as          *)
(* shlex.split gives them: kind "word" for a program name or an argument,   *)
(* read as a path; "flag" for a word that starts with "-"; "op" for a shell *)
(* operator (a pipe, a redirection, a semicolon).                           *)
(***************************************************************************)
Word(abs, parts) == [kind |-> "word", abs |-> abs, parts |-> parts]
Flag(text) == [kind |-> "flag", abs |-> FALSE, parts |-> <<text>>]
Op(text) == [kind |-> "op", abs |-> FALSE, parts |-> <<text>>]

\* ExecTool._SAFE_COMMANDS, lines 17-34.
SafeCommands ==
    { "ls", "pwd", "cd", "cat", "head", "tail", "grep", "find",
      "echo", "date", "whoami", "id", "uname", "df", "du", "free",
      "ps", "top", "htop", "netstat", "ss", "ping", "traceroute",
      "curl", "wget", "git", "python", "python3", "pip", "pip3",
      "npm", "node", "cargo", "rustc", "go", "java", "javac",
      "mvn", "gradle", "docker", "docker-compose", "kubectl",
      "terraform", "ansible", "make", "cmake", "gcc", "g++", "clang",
      "rustup", "gem", "bundle", "composer", "yarn",
      "pytest", "coverage", "black", "ruff", "mypy", "pylint",
      "flake8", "sed", "awk", "sort", "uniq", "wc",
      "cut", "tr", "xargs", "timeout", "watch", "tree", "file",
      "stat", "readlink", "realpath", "basename", "dirname",
      "md5sum", "sha1sum", "sha256sum", "base64", "hexdump",
      "jq", "yq", "rsync", "scp", "ssh", "tar", "zip", "unzip",
      "gzip", "gunzip", "xz", "7z", "chmod", "chown", "chgrp",
      "ln", "cp", "mv", "mkdir", "touch", "rm", "rmdir" }

\* The commands the LLM gives exec.
Commands ==
    { << Word(FALSE, <<"ls">>), Flag("-la") >>,
      << Word(FALSE, <<"cat">>), Word(FALSE, <<"a.txt">>) >>,
      << Word(FALSE, <<"cat">>), Word(TRUE, <<"out", "secret.txt">>) >>,
      << Word(FALSE, <<"touch">>), Word(TRUE, <<"out", "new.txt">>) >>,
      << Word(FALSE, <<"cat">>), Word(FALSE, <<"..", "out", "secret.txt">>) >>,
      << Word(FALSE, <<"cat">>), Word(FALSE, <<"link", "secret.txt">>) >>,
      << Word(FALSE, <<"perl">>), Word(FALSE, <<"script.pl">>) >>,
      << Word(TRUE, <<"usr", "bin", "perl">>), Word(FALSE, <<"script.pl">>) >>,
      << Word(FALSE, <<"bin", "perl">>) >>,
      << Word(TRUE, <<"bin", "ls">>) >>,
      << Word(FALSE, <<"rm">>), Flag("-rf"), Word(FALSE, <<"sub">>) >>,
      << Word(FALSE, <<"cat">>), Word(FALSE, <<"a.txt">>), Op("|"),
         Word(FALSE, <<"grep">>), Word(FALSE, <<"x">>) >> }

\* Path(cmd_name).name, line 126.
BaseName(word) == word.parts[Len(word.parts)]

\* "/" in cmd_name, line 130.
HasDirPart(word) == word.abs \/ Len(word.parts) > 1

\* _has_shell_features, lines 100-105.
HasShellFeatures(command) == \E i \in 1..Len(command) : command[i].kind = "op"

\* The default deny patterns, lines 54-71: rm with -r or -f, and the shell
\* operators.
DenyPattern(command) ==
    \/ \E i \in 1..Len(command) : command[i].kind = "op"
    \/ \E i \in 1..(Len(command) - 1) :
          /\ command[i].kind = "word" /\ BaseName(command[i]) = "rm"
          /\ command[i + 1].kind = "flag"
          /\ command[i + 1].parts[1] \in {"-r", "-f", "-rf", "-fr"}

\* The traversal patterns of _guard_command, lines 227-238, on the words
\* looked at: ".." anywhere, "/" at the start of the command.
GuardTraversal(command) ==
    \/ \E i \in 1..Len(command) :
          \E k \in 1..Len(command[i].parts) : command[i].parts[k] \in {"..", "a..b.txt"}
    \/ command[1].abs

\* _guard_command, lines 209-266: the error string, or "" for None.  A word
\* that exists (Path(arg).exists(), seen from the process's working directory)
\* must resolve inside cwd; a word that does not exist is not looked at.
GuardCommand(f, env, command, cwd) ==
    IF DenyPattern(command)
    THEN "Error: Command blocked by safety guard (dangerous pattern detected)"
    ELSE IF ~env.restrict_to_workspace THEN ""
    ELSE IF GuardTraversal(command)
    THEN "Error: Command blocked by safety guard (path traversal detected)"
    ELSE IF \E i \in 1..Len(command) :
               /\ command[i].kind # "flag"
               /\ Exists(f, Resolve(f, env.proc_cwd, command[i]))
               /\ ~IsRelativeTo(Resolve(f, env.proc_cwd, command[i]),
                                Resolve(f, <<>>, PathArg(TRUE, cwd)))
    THEN "Error: Command blocked by safety guard (path outside working dir)"
    ELSE ""

\* _parse_command_safely, lines 107-136: TRUE when it returns the arguments,
\* FALSE when it returns None.
ParseCommandSafely(command) ==
    IF HasShellFeatures(command) THEN FALSE
    ELSE IF command = <<>> THEN FALSE
    ELSE IF BaseName(command[1]) \notin SafeCommands /\ HasDirPart(command[1]) THEN FALSE
    ELSE TRUE

\* ExecTool.execute, lines 138-207, with self.working_dir the workspace;
\* installed: create_subprocess_exec finds the program.
Exec(command, installed) ==
    LET cwd == Workspace
        guard_error == GuardCommand(fs, toolEnv, command, cwd)
        cwd_path == Resolve(fs, <<>>, PathArg(TRUE, cwd))
        result == IF guard_error # "" THEN guard_error
                  ELSE IF ~ParseCommandSafely(command)
                  THEN "Error: Command contains shell features or uses an unsafe command"
                  ELSE IF ~IsDir(fs, cwd_path)
                  THEN "Error: Working directory does not exist or is not a directory"
                  ELSE IF ~installed THEN "Error: Command not found"
                  ELSE "output"
    IN  /\ nToolCalls < MaxToolCalls
        /\ toolCall' = [CallRecord("exec", PathArg(FALSE, <<>>), result, {}, {}) EXCEPT
                           !.command = command,
                           !.spawned = IF result = "output"
                                       THEN [started |-> TRUE, args |-> command,
                                             cwd |-> cwd_path]
                                       ELSE NoSpawn]
        /\ nToolCalls' = nToolCalls + 1
        /\ UNCHANGED <<fs, toolEnv>>
        /\ UNCHANGED offTools

\* The native tools' state while another component is looked at.
ToolsIdle ==
    /\ fs = [dirs |-> {<<>>}, files |-> {}, links |-> <<>>]
    /\ toolEnv = [proc_cwd |-> <<>>, restrict_to_workspace |-> FALSE]
    /\ toolCall = NoCall
    /\ nToolCalls = 0

(***************************************************************************)
(* MCPClient (mcp/client.py) with one configured server, and the two        *)
(* transports' call_tool (mcp/transports.py).  A string is the sequence of  *)
(* its pieces; the newline of a join is a piece of its own.                 *)
(***************************************************************************)
Server == "srv"

\* Cap on the reconnect attempts looked at.
MaxAttempts == 3
\* Longest content list of a tools/call result.
MaxBlocks == 2

\* MCPConfig: reconnect_base_delay, reconnect_max_delay, reconnect_max_attempts
\* (0: no limit), and the server's transport; the server is enabled.
McpConfigs ==
    [ transport : {"stdio", "sse"},
      reconnect_base_delay : {1},
      reconnect_max_delay : {3},
      reconnect_max_attempts : {0, 2} ]

\* The content blocks of a tools/call result.
Blocks ==
    { [type |-> "text", text |-> <<"hello">>],
      [type |-> "resource", uri |-> "file:///r"],
      [type |-> "image", mimeType |-> "image/png", data |-> <<"i", "V", "B">>] }

\* "\n".join(text_parts)
RECURSIVE Join(_)
Join(text_parts) ==
    IF text_parts = <<>> THEN <<>>
    ELSE IF Len(text_parts) = 1 THEN text_parts[1]
    ELSE text_parts[1] \o <<"\n">> \o Join(Tail(text_parts))

\* The text_parts of StdioTransport.call_tool, lines 349-362.
RECURSIVE StdioParts(_)
StdioParts(content) ==
    IF content = <<>> THEN <<>>
    ELSE LET item == content[1]
             part == IF item.type = "text" THEN << item.text >>
                     ELSE IF item.type = "resource"
                     THEN << <<"[Resource: ", item.uri, "]">> >>
                     ELSE IF item.type = "image"
                     THEN << <<"[Image: ", item.mimeType, ", ", Len(item.data), " chars]">> >>
                     ELSE <<>>
         IN  part \o StdioParts(Tail(content))

\* The text_parts of SSETransport.call_tool, lines 603-607.
RECURSIVE SSEParts(_)
SSEParts(content) ==
    IF content = <<>> THEN <<>>
    ELSE (IF content[1].type = "text" THEN << content[1].text >> ELSE <<>>)
             \o SSEParts(Tail(content))

\* transport.call_tool for a content list, by the kind of transport.
TransportCallTool(kind, content) ==
    LET text_parts == IF kind = "stdio" THEN StdioParts(content) ELSE SSEParts(content)
    IN  IF text_parts # <<>> THEN Join(text_parts) ELSE <<"Tool executed successfully">>

\* dict.pop(name, None)
Pop(f, name) == [n \in DOMAIN f \ {name} |-> f[n]]

\* MCPClient.is_connected, lines 308-311.
IsConnected(name) == name \in DOMAIN transports /\ transports[name].is_running

Min(a, b) == IF a <= b THEN a ELSE b

\* The backoff of _reconnect_server, lines 439-443, without its cap.
ReconnectDelayUncapped(attempts) == mcpConfig.reconnect_base_delay * (2 ^ attempts)

\* The backoff of _reconnect_server, lines 439-443.
ReconnectDelay(attempts) ==
    Min(mcpConfig.reconnect_base_delay * (2 ^ attempts), mcpConfig.reconnect_max_delay)

\* The give-up test of _reconnect_server, one attempt late.
GiveUpOneLate(attempts) ==
    mcpConfig.reconnect_max_attempts > 0 /\ attempts > mcpConfig.reconnect_max_attempts

\* The give-up test of _reconnect_server, lines 432-437.
GiveUp(attempts) ==
    mcpConfig.reconnect_max_attempts > 0 /\ attempts >= mcpConfig.reconnect_max_attempts

NoBackoff ==
    [n |-> 0, n_used |-> -1, delay |-> 0, recovered |-> FALSE, starts |-> 0,
     gave_up |-> FALSE, disconnected |-> FALSE, restarted |-> FALSE]
NoSeen ==
    [read |-> FALSE, in_transports |-> FALSE, has_tools |-> FALSE,
     has_resources |-> FALSE, called |-> FALSE, kind |-> "", content |-> <<>>,
     result |-> <<>>]

\* connect(), lines 95-105, once it has the lock: return if the name is in
\* _transports, else forget the reconnect attempts and start a transport.
ConnectUnderLock ==
    IF Server \in DOMAIN transports
    THEN /\ mcpPc' = [mcpPc EXCEPT !.connect = "idle"]
         /\ backoff' = [backoff EXCEPT !.starts = 0, !.gave_up = FALSE,
                                       !.disconnected = FALSE]
         /\ UNCHANGED <<mcpLock, reconnectAttempts>>
    ELSE /\ mcpLock' = "connect"
         /\ reconnectAttempts' = [reconnectAttempts EXCEPT ![Server] = 0]
         /\ mcpPc' = [mcpPc EXCEPT !.connect = "start"]
         /\ backoff' = [backoff EXCEPT !.n = 0, !.starts = 0, !.gave_up = FALSE,
                                       !.disconnected = FALSE]

\* connect(), lines 77-105: the config is stored and the lock taken; a free
\* lock is taken without a suspension, a held one is waited for.
Connect ==
    /\ mcpPc.connect = "idle"
    /\ serverConfigs' = serverConfigs \cup {Server}
    /\ IF mcpLock = "free"
       THEN ConnectUnderLock
       ELSE /\ mcpPc' = [mcpPc EXCEPT !.connect = "lock"]
            /\ backoff' = [backoff EXCEPT !.starts = 0, !.gave_up = FALSE,
                                          !.disconnected = FALSE]
            /\ UNCHANGED <<mcpLock, reconnectAttempts>>
    /\ UNCHANGED <<mcpConfig, transports, mcpTools, mcpResources>>
    /\ mcpSeen' = NoSeen
    /\ UNCHANGED <<mcpLeaked, offMcp>>

\* connect() gets the lock it waited for.
ConnectLocked ==
    /\ mcpPc.connect = "lock"
    /\ mcpLock = "free"
    /\ ConnectUnderLock
    /\ UNCHANGED <<mcpConfig, transports, mcpTools, mcpResources, serverConfigs>>
    /\ mcpSeen' = NoSeen
    /\ UNCHANGED <<mcpLeaked, offMcp>>

\* await transport.start() returns or raises, in connect() (lines 103-105,
\* 130-132) and in _reconnect_server (lines 463-465, 493-494).  outcome "ok":
\* start() returned and the transport is stored under the name, in place of
\* the one stored there; "not_started": the process or session could not be
\* created; "initialize_failed": the process or session exists and the
\* initialize request raised or timed out (transports.py lines 105-121).
TransportStarted(t, outcome) ==
    /\ mcpPc[t] = "start"
    /\ IF outcome = "ok"
       THEN /\ transports' = (Server :> [kind |-> mcpConfig.transport, is_running |-> TRUE,
                                          alive |-> TRUE]) @@ transports
            /\ mcpPc' = [mcpPc EXCEPT ![t] = "list_tools"]
            /\ mcpLeaked' = (mcpLeaked \/ Server \in DOMAIN transports)
            /\ UNCHANGED mcpLock
       ELSE /\ mcpPc' = [mcpPc EXCEPT ![t] = "idle"]
            /\ mcpLock' = IF t = "connect" THEN "free" ELSE mcpLock
            /\ mcpLeaked' = (mcpLeaked \/ outcome = "initialize_failed")
            /\ UNCHANGED transports
    /\ backoff' = [backoff EXCEPT !.restarted =
                       @ \/ (/\ t = "health" /\ outcome # "not_started"
                             /\ backoff.disconnected)]
    /\ UNCHANGED <<mcpConfig, mcpTools, mcpResources, serverConfigs, reconnectAttempts>>
    /\ mcpSeen' = NoSeen
    /\ UNCHANGED offMcp

\* await transport.list_tools() returns or raises: the cache entry is set
\* (lines 108-116, 468-473).
ListToolsDone(t) ==
    /\ mcpPc[t] = "list_tools"
    /\ mcpTools' = mcpTools \cup {Server}
    /\ mcpPc' = [mcpPc EXCEPT ![t] = "list_resources"]
    /\ UNCHANGED <<mcpConfig, transports, mcpResources, serverConfigs, reconnectAttempts,
                   mcpLock, backoff>>
    /\ mcpSeen' = NoSeen
    /\ UNCHANGED <<mcpLeaked, offMcp>>

\* await transport.list_resources() returns or raises: the cache entry is
\* set; connect() releases the lock (lines 118-128), _reconnect_server forgets
\* the attempts and calls the callbacks (lines 475-491).
ListResourcesDone(t) ==
    /\ mcpPc[t] = "list_resources"
    /\ mcpResources' = mcpResources \cup {Server}
    /\ mcpPc' = [mcpPc EXCEPT ![t] = "idle"]
    /\ IF t = "connect"
       THEN /\ mcpLock' = "free"
            /\ UNCHANGED <<reconnectAttempts, backoff>>
       ELSE /\ reconnectAttempts' = [reconnectAttempts EXCEPT ![Server] = 0]
            /\ backoff' = [backoff EXCEPT !.n = 0, !.starts = 0,
                                          !.recovered = backoff.n_used >= 2]
            /\ UNCHANGED mcpLock
    /\ UNCHANGED <<mcpConfig, transports, mcpTools, serverConfigs>>
    /\ mcpSeen' = NoSeen
    /\ UNCHANGED <<mcpLeaked, offMcp>>

\* disconnect(), lines 153-163: under the lock, pop the transport and stop it.
Disconnect ==
    /\ mcpPc.disconnect = "idle"
    /\ mcpLock = "free"
    /\ IF Server \in DOMAIN transports
       THEN /\ transports' = Pop(transports, Server)
            /\ mcpLock' = "disconnect"
            /\ mcpPc' = [mcpPc EXCEPT !.disconnect = "stop"]
            /\ UNCHANGED backoff
       ELSE /\ backoff' = [backoff EXCEPT !.disconnected = TRUE]
            /\ UNCHANGED <<transports, mcpLock, mcpPc>>
    /\ UNCHANGED <<mcpConfig, mcpTools, mcpResources, serverConfigs, reconnectAttempts>>
    /\ mcpSeen' = NoSeen
    /\ UNCHANGED <<mcpLeaked, offMcp>>

\* disconnect(), lines 164-166: after the stop, drop the caches; disconnected
\* records a disconnect() completed with no connect() called since.
DisconnectStopped ==
    /\ mcpPc.disconnect = "stop"
    /\ mcpTools' = mcpTools \ {Server}
    /\ mcpResources' = mcpResources \ {Server}
    /\ mcpLock' = "free"
    /\ mcpPc' = [mcpPc EXCEPT !.disconnect = "idle"]
    /\ backoff' = [backoff EXCEPT !.disconnected = TRUE]
    /\ UNCHANGED <<mcpConfig, transports, serverConfigs, reconnectAttempts>>
    /\ mcpSeen' = NoSeen
    /\ UNCHANGED <<mcpLeaked, offMcp>>

\* One round of _health_check_loop: _check_and_reconnect (lines 401-419) and
\* _reconnect_server up to its sleep (lines 421-453).
CheckAndReconnect ==
    /\ mcpPc.health = "idle"
    /\ Server \in serverConfigs
    /\ ~IsConnected(Server)
    /\ LET attempts == reconnectAttempts[Server]
       IN  IF GiveUp(attempts)
           THEN /\ backoff' = [backoff EXCEPT !.gave_up = TRUE]
                /\ UNCHANGED <<reconnectAttempts, mcpPc>>
           ELSE /\ attempts < MaxAttempts
                /\ reconnectAttempts' = [reconnectAttempts EXCEPT ![Server] = attempts + 1]
                /\ mcpPc' = [mcpPc EXCEPT !.health = "sleep"]
                /\ backoff' = [backoff EXCEPT !.n = backoff.n + 1,
                                              !.n_used = backoff.n,
                                              !.delay = ReconnectDelay(attempts),
                                              !.starts = backoff.starts + 1]
    /\ UNCHANGED <<mcpConfig, transports, mcpTools, mcpResources, serverConfigs,
                   mcpLock>>
    /\ mcpSeen' = NoSeen
    /\ UNCHANGED <<mcpLeaked, offMcp>>

\* _reconnect_server after the sleep, lines 455-462: pop the old transport and
\* stop it, if there is one.
ReconnectWake ==
    /\ mcpPc.health = "sleep"
    /\ IF Server \in DOMAIN transports
       THEN /\ transports' = Pop(transports, Server)
            /\ mcpPc' = [mcpPc EXCEPT !.health = "stop_old"]
       ELSE /\ mcpPc' = [mcpPc EXCEPT !.health = "start"]
            /\ UNCHANGED transports
    /\ UNCHANGED <<mcpConfig, mcpTools, mcpResources, serverConfigs, reconnectAttempts,
                   mcpLock, backoff>>
    /\ mcpSeen' = NoSeen
    /\ UNCHANGED <<mcpLeaked, offMcp>>

\* await old_transport.stop() is over, lines 458-461.
ReconnectStopped ==
    /\ mcpPc.health = "stop_old"
    /\ mcpPc' = [mcpPc EXCEPT !.health = "start"]
    /\ UNCHANGED <<mcpConfig, transports, mcpTools, mcpResources, serverConfigs,
                   reconnectAttempts, mcpLock, backoff>>
    /\ mcpSeen' = NoSeen
    /\ UNCHANGED <<mcpLeaked, offMcp>>

\* The server's process exits or closes its stdout, or its HTTP endpoint
\* goes away: the read loop ends (transports.py lines 237-261), process,
\* _initialized and _session stay as they are and with them is_running
\* (lines 402-405, 630-632).
TransportDies ==
    /\ Server \in DOMAIN transports
    /\ transports[Server].alive
    /\ transports' = [transports EXCEPT ![Server].alive = FALSE]
    /\ UNCHANGED <<mcpConfig, mcpTools, mcpResources, serverConfigs, reconnectAttempts,
                   mcpLock, mcpPc, backoff>>
    /\ mcpSeen' = NoSeen
    /\ UNCHANGED <<mcpLeaked, offMcp>>

\* A read path (get_server_names, get_cached_tools, is_connected,
\* get_status_summary; lines 198-200, 304-350) runs: it takes no lock.
GetStatusSummary ==
    /\ mcpSeen' = [NoSeen EXCEPT !.read = TRUE,
                                  !.in_transports = Server \in DOMAIN transports,
                                  !.has_tools = Server \in mcpTools,
                                  !.has_resources = Server \in mcpResources]
    /\ UNCHANGED <<mcpConfig, transports, mcpTools, mcpResources, serverConfigs,
                   reconnectAttempts, mcpLock, mcpPc, backoff>>
    /\ UNCHANGED <<mcpLeaked, offMcp>>

\* call_tool, lines 202-227, answered with a content list; a transport that
\* is not running raises MCPTransportError.
CallTool(content) ==
    /\ mcpSeen' =
          [NoSeen EXCEPT
              !.called = TRUE,
              !.content = content,
              !.kind = IF Server \in DOMAIN transports THEN transports[Server].kind
                       ELSE "",
              !.result = IF Server \notin DOMAIN transports
                         THEN <<"Error: MCP server not connected">>
                         ELSE IF ~transports[Server].is_running
                         THEN <<"Error: transport not running">>
                         ELSE TransportCallTool(transports[Server].kind, content)]
    /\ UNCHANGED <<mcpConfig, transports, mcpTools, mcpResources, serverConfigs,
                   reconnectAttempts, mcpLock, mcpPc, backoff>>
    /\ UNCHANGED <<mcpLeaked, offMcp>>

\* MCPClient.__init__, lines 56-75.
McpInit ==
    /\ transports = <<>>
    /\ mcpTools = {}
    /\ mcpResources = {}
    /\ serverConfigs = {}
    /\ reconnectAttempts = [n \in {Server} |-> 0]
    /\ mcpLock = "free"
    /\ mcpPc = [connect |-> "idle", disconnect |-> "idle", health |-> "idle"]
    /\ mcpSeen = NoSeen
    /\ backoff = NoBackoff
    /\ mcpLeaked = FALSE

\* The MCP client's state while another component is looked at.
McpIdle ==
    /\ mcpConfig = [transport |-> "stdio", reconnect_base_delay |-> 1,
                    reconnect_max_delay |-> 3, reconnect_max_attempts |-> 0]
    /\ McpInit

(***************************************************************************)
(* The cron tool (agent/tools/cron.py): the jobs in memory, the store file  *)
(* and the add and remove operations.  An optional value is Null or <<v>>.  *)
(***************************************************************************)
\* Jobs added and operations called in one run, and the clock's last
\* reading.
MaxAdds == 2
MaxCronCalls == 3
MaxNow == 2

Null == <<>>

\* Python's falsehood of an optional number and of an optional string.
Falsy(v) == v = Null \/ v = <<0>>
FalsyStr(v) == v = Null \/ v = <<"">>

\* datetime.fromisoformat(at) and int(dt.timestamp() * 1000), lines 277-279,
\* on the clock's scale; Null when ValueError is raised.
FromIsoFormat(at) ==
    CASE at = <<"2024-03-15T14:30:01">> -> <<1>>
      [] at = <<"2024-03-15T14:30:03">> -> <<3>>
      [] OTHER -> Null

\* A lookup that finds no key.
GetDefault(d, key, default) == default

\* dict.get(key, default) of a parsed JSON object.
Get(d, key, default) == IF key \in DOMAIN d THEN d[key] ELSE default

\* _compute_next_run, lines 19-38; croniter accepts "0 9 * * *" and raises
\* on "bad".
ComputeNextRun(schedule, now_ms) ==
    CASE schedule.kind = "at" ->
            IF ~Falsy(schedule.at_ms) /\ schedule.at_ms[1] > now_ms
            THEN schedule.at_ms ELSE Null
      [] schedule.kind = "every" ->
            IF Falsy(schedule.every_ms) \/ schedule.every_ms[1] <= 0
            THEN Null ELSE <<now_ms + schedule.every_ms[1]>>
      [] schedule.kind = "cron" /\ ~FalsyStr(schedule.expr) ->
            IF schedule.expr = <<"0 9 * * *">> THEN <<now_ms + 1>> ELSE Null
      [] OTHER -> Null

\* One entry of "jobs" as _save_store writes it, lines 188-216.
EncodeJob(j) ==
    [id |-> j.id, name |-> j.name, enabled |-> j.enabled,
     schedule |-> [kind |-> j.schedule.kind, atMs |-> j.schedule.at_ms,
                   everyMs |-> j.schedule.every_ms, expr |-> j.schedule.expr,
                   tz |-> j.schedule.tz],
     payload |-> [kind |-> j.payload.kind, message |-> j.payload.message,
                  deliver |-> j.payload.deliver, channel |-> j.payload.channel,
                  to |-> j.payload.to],
     state |-> [nextRunAtMs |-> j.state.next_run_at_ms,
                lastRunAtMs |-> j.state.last_run_at_ms,
                lastStatus |-> j.state.last_status,
                lastError |-> j.state.last_error],
     createdAtMs |-> j.created_at_ms, updatedAtMs |-> j.updated_at_ms,
     deleteAfterRun |-> j.delete_after_run]

\* The CronJob _load_store builds from one entry, lines 139-166.
DecodeJob(j) ==
    LET state == Get(j, "state", <<>>) IN
    [id |-> j.id, name |-> j.name, enabled |-> Get(j, "enabled", TRUE),
     schedule |-> [kind |-> j.schedule.kind,
                   at_ms |-> Get(j.schedule, "atMs", Null),
                   every_ms |-> Get(j.schedule, "everyMs", Null),
                   expr |-> Get(j.schedule, "expr", Null),
                   tz |-> Get(j.schedule, "tz", Null)],
     payload |-> [kind |-> Get(j.payload, "kind", "agent_turn"),
                  message |-> Get(j.payload, "message", ""),
                  deliver |-> Get(j.payload, "deliver", FALSE),
                  channel |-> Get(j.payload, "channel", Null),
                  to |-> Get(j.payload, "to", Null)],
     state |-> [next_run_at_ms |-> Get(state, "nextRunAtMs", Null),
                last_run_at_ms |-> Get(state, "lastRunAtMs", Null),
                last_status |-> Get(state, "lastStatus", Null),
                last_error |-> Get(state, "lastError", Null)],
     created_at_ms |-> Get(j, "createdAtMs", 0),
     updated_at_ms |-> Get(j, "updatedAtMs", 0),
     delete_after_run |-> Get(j, "deleteAfterRun", FALSE)]

\* The jobs a CronTool without a store loads from the file, lines 133-174.
LoadJobs(file) ==
    IF file.exists THEN [i \in 1..Len(file.jobs) |-> DecodeJob(file.jobs[i])] ELSE <<>>

\* _load_store, lines 128-176: the store in memory, loaded at first use.
LoadStore(c) == IF c.loaded THEN c.jobs ELSE LoadJobs(c.file)

\* The file _save_store writes for the jobs, lines 178-221.
SaveStore(jobs) == [exists |-> TRUE, jobs |-> [i \in 1..Len(jobs) |-> EncodeJob(jobs[i])]]

\* The store files found at start: none, the file of test_load_existing_store
\* (test_cron_tool.py lines 246-265), and a file with the required keys only.
CronFiles ==
    LET schedule == [kind |-> "every", everyMs |-> <<60000>>, atMs |-> Null,
                     expr |-> Null, tz |-> Null]
        full == [id |-> "test123", name |-> "existing-job", enabled |-> TRUE,
                 schedule |-> schedule,
                 payload |-> [kind |-> "agent_turn", message |-> "Test",
                              deliver |-> FALSE, channel |-> Null, to |-> Null],
                 state |-> [nextRunAtMs |-> <<1234567890>>, lastRunAtMs |-> Null,
                            lastStatus |-> Null, lastError |-> Null],
                 createdAtMs |-> 1234567890, updatedAtMs |-> 1234567890,
                 deleteAfterRun |-> FALSE]
        bare == [id |-> "test123", name |-> "existing-job",
                 schedule |-> [kind |-> "every", everyMs |-> <<60000>>],
                 payload |-> [message |-> "Test"]]
    IN  { [exists |-> FALSE, jobs |-> <<>>],
          [exists |-> TRUE, jobs |-> <<full>>],
          [exists |-> TRUE, jobs |-> <<bare>>] }

\* str(uuid.uuid4())[:8] of successive calls, line 300.
Uuids == <<"1b9d6bcd", "bbfd2b0f", "9c4a3e77", "6ec0bd7f">>

\* CronTool.__init__, lines 48-56, at a store path holding the file.
CronInit(file) ==
    [loaded |-> FALSE, jobs |-> <<>>, file |-> file, now |-> 1, added |-> 0, calls |-> 0,
     foreign |-> FALSE,
     last |-> [op |-> "none", schedule_type |-> "", every_seconds |-> Null,
               result |-> <<>>]]

\* A validation that lets every schedule through.
ScheduleErrorNever(schedule_type, at, every_seconds, schedule, now) == <<>>

\* _add_job, lines 273-296: the error the schedule arguments are refused
\* with, or <<>>.
ScheduleError(schedule_type, at, every_seconds, schedule, now) ==
    CASE schedule_type = "at" /\ FalsyStr(at) ->
            <<"Error:", "'at' parameter required for 'at' schedule type">>
      [] schedule_type = "at" /\ FromIsoFormat(at) = Null ->
            <<"Error:", "Invalid datetime format">>
      [] schedule_type = "every" /\ (Falsy(every_seconds) \/ every_seconds[1] <= 0) ->
            <<"Error:", "'every_seconds' must be a positive integer">>
      [] schedule_type = "cron" /\ FalsyStr(schedule.expr) ->
            <<"Error:", "'cron_expr' required for 'cron' schedule type">>
      [] Falsy(ComputeNextRun(schedule, now)) /\ schedule_type # "at" ->
            <<"Error:", "Could not compute next run time for the given schedule">>
      [] OTHER -> <<>>

\* _add_job, lines 256-330.
AddJob(schedule_type, at, every_seconds, cron_expr, deliver) ==
    LET jobs == LoadStore(cron)
        now == cron.now
        schedule == [kind |-> schedule_type,
                     at_ms |-> IF schedule_type = "at" THEN FromIsoFormat(at) ELSE Null,
                     every_ms |-> IF schedule_type = "every" /\ every_seconds # Null
                                  THEN <<every_seconds[1] * 1000>> ELSE Null,
                     expr |-> IF schedule_type = "cron" THEN cron_expr ELSE Null,
                     tz |-> Null]
        error == ScheduleError(schedule_type, at, every_seconds, schedule, now)
        job == [id |-> Uuids[cron.added + 1], name |-> "task", enabled |-> TRUE,
                schedule |-> schedule,
                payload |-> [kind |-> "agent_turn", message |-> "ping",
                             deliver |-> deliver,
                             channel |-> IF deliver THEN <<"telegram">> ELSE Null,
                             to |-> IF deliver THEN <<"42">> ELSE Null],
                state |-> [next_run_at_ms |-> ComputeNextRun(schedule, now),
                           last_run_at_ms |-> Null, last_status |-> Null,
                           last_error |-> Null],
                created_at_ms |-> now, updated_at_ms |-> now,
                delete_after_run |-> (schedule_type = "at")]
        called == [op |-> "add", schedule_type |-> schedule_type,
                   every_seconds |-> every_seconds, result |-> error]
    IN  /\ cron.added < MaxAdds
        /\ cron.calls < MaxCronCalls
        /\ IF error # <<>>
           THEN cron' = [cron EXCEPT !.loaded = TRUE, !.jobs = jobs, !.calls = @ + 1,
                                     !.last = called]
           ELSE cron' = [cron EXCEPT !.loaded = TRUE, !.jobs = Append(jobs, job),
                                     !.file = SaveStore(Append(jobs, job)),
                                     !.added = @ + 1, !.calls = @ + 1,
                                     !.last = [called EXCEPT !.result =
                                                  <<"Created scheduled task", job.id>>]]
        /\ UNCHANGED offCron

\* _remove_job, lines 361-375.
RemoveJob(job_id) ==
    LET jobs == LoadStore(cron)
        kept == SelectSeq(jobs, LAMBDA j : j.id # job_id)
        called == [op |-> "remove", schedule_type |-> "", every_seconds |-> Null,
                   result |-> <<>>]
    IN  /\ cron.calls < MaxCronCalls
        /\ IF job_id = ""
           THEN cron' = [cron EXCEPT !.calls = @ + 1, !.last = [called EXCEPT !.result =
                            <<"Error:", "'job_id' parameter required for remove operation">>]]
           ELSE IF Len(kept) < Len(jobs)
           THEN cron' = [cron EXCEPT !.loaded = TRUE, !.jobs = kept,
                                     !.file = SaveStore(kept), !.calls = @ + 1,
                                     !.last = [called EXCEPT !.result =
                                                  <<"Removed scheduled task", job_id>>]]
           ELSE cron' = [cron EXCEPT !.loaded = TRUE, !.jobs = jobs, !.calls = @ + 1,
                                     !.last = [called EXCEPT !.result =
                                                  <<"Error:", "Job not found">>]]
        /\ UNCHANGED offCron

\* The job another writer of the jobs file adds.
ForeignJob ==
    [id |-> "5e1f00d5", name |-> "report", enabled |-> TRUE,
     schedule |-> [kind |-> "every", at_ms |-> Null, every_ms |-> <<60000>>,
                   expr |-> Null, tz |-> Null],
     payload |-> [kind |-> "agent_turn", message |-> "report", deliver |-> FALSE,
                  channel |-> Null, to |-> Null],
     state |-> [next_run_at_ms |-> <<60001>>, last_run_at_ms |-> Null,
                last_status |-> Null, last_error |-> Null],
     created_at_ms |-> 1, updated_at_ms |-> 1, delete_after_run |-> FALSE]

\* Another writer of the same jobs file, a second CronTool at the same
\* store path or the cron service, loads the file, adds its job (_add_job,
\* lines 256-330) and saves; foreign records that it did so after this
\* tool's first load.
OtherWriter ==
    LET jobs == LoadJobs(cron.file) IN
    /\ \A i \in 1..Len(jobs) : jobs[i].id # ForeignJob.id
    /\ ~cron.foreign
    /\ cron' = [cron EXCEPT !.file = SaveStore(Append(jobs, ForeignJob)),
                            !.foreign = cron.loaded,
                            !.last = [op |-> "other", schedule_type |-> "",
                                      every_seconds |-> Null, result |-> <<>>]]
    /\ UNCHANGED offCron

\* _now_ms, lines 15-16: the clock advances between calls.
CronTick ==
    /\ cron.now < MaxNow
    /\ cron' = [cron EXCEPT !.now = @ + 1]
    /\ UNCHANGED offCron

(***************************************************************************)
(* The git updater (git_update/service.py) over one repository.  A commit   *)
(* is the upstream commit it is based on and the local commit on top of it, *)
(* if any; a local commit or edit of kind "collide" touches what every      *)
(* later upstream commit touches, one of kind "apart" does not.             *)
(***************************************************************************)
\* Upstream commits pushed and update runs made.
MaxCommits == 2
MaxRuns == 3

Clean == [kind |-> "none", on |-> 0]

\* git rev-parse HEAD; while a rebase is stopped HEAD is detached at the
\* commit rebased onto.
RevParseHead(r) == IF r.stopped THEN [base |-> r.onto, local |-> "none"] ELSE r.head

\* git stash push: nothing to save on a clean tree, refused on unmerged paths.
StashPush(r) ==
    IF r.dirty.kind \in {"none", "unmerged"} \/ r.stopped THEN r
    ELSE [r EXCEPT !.stash = Append(@, r.dirty), !.dirty = Clean]

\* git rebase origin/<branch>, and the rebase of git pull --rebase: refused
\* on a dirty tree, stopped when the local commit collides with upstream.
Rebase(r) ==
    IF r.stopped \/ r.dirty.kind # "none" THEN r
    ELSE IF r.head.local = "collide" /\ r.origin > r.head.base
    THEN [r EXCEPT !.stopped = TRUE, !.onto = r.origin]
    ELSE [r EXCEPT !.head.base = r.origin]

\* git rebase --abort.
RebaseAbort(r) == [r EXCEPT !.stopped = FALSE]

\* git stash pop: refused on a dirty tree; an edit that collides with the
\* commits pulled since it was made leaves unmerged paths and stays stashed.
StashPop(r) ==
    IF r.stash = <<>> \/ r.dirty.kind # "none" THEN r
    ELSE LET top == r.stash[Len(r.stash)] IN
         IF top.kind = "collide" /\ RevParseHead(r).base > top.on
         THEN [r EXCEPT !.dirty = [kind |-> "unmerged", on |-> top.on]]
         ELSE [r EXCEPT !.dirty = top, !.stash = SubSeq(@, 1, Len(@) - 1)]

\* Starts of a new GitUpdater over the state file of the one before.
MaxRestarts == 1

\* The ids uuid4 can give a repository (line 58), cut to what tells two
\* draws apart or not.
RepoIds == {"1f0c3a9e", "b7d2e844"}

\* GitRepoState's defaults, as _load_store builds it from the configuration
\* (lines 67-69).
NoRepoState == [last_status |-> "none", updates_applied |-> 0]

\* _load_store, lines 73-90: the state of the repository with the id drawn
\* for it, when the file holds the state saved under file_id.
RestoreById(id, file_id, file) == IF id = file_id THEN file ELSE NoRepoState

\* GitUpdater after start() with no persisted state (lines 52-71 and 334),
\* and a checkout of the branch at its upstream commit.  id is the
\* repository's id in this updater and file_id the one in the state file;
\* persisted is what the state file held when the updater was last
\* restarted, and restarted whether that was its last operation.
GitInit(exists) ==
    [repo |-> [exists |-> exists, head |-> [base |-> 0, local |-> "none"], origin |-> 0,
               upstream |-> 0, dirty |-> Clean, stash |-> <<>>, stopped |-> FALSE,
               onto |-> 0],
     state |-> [last_status |-> "none", updates_applied |-> 0],
     file |-> [last_status |-> "none", updates_applied |-> 0],
     id |-> "1f0c3a9e", file_id |-> "1f0c3a9e", restarts |-> 0, restarted |-> FALSE,
     persisted |-> [last_status |-> "none", updates_applied |-> 0],
     runs |-> 0, touched |-> FALSE,
     run |-> [status |-> "none", failed |-> FALSE, collided |-> FALSE, quiet |-> FALSE,
              old |-> [base |-> 0, local |-> "none"], dirty |-> Clean, applied |-> 0,
              on_update |-> 0, on_conflict |-> 0,
              prev_status |-> "none", prev_failed |-> FALSE]]

\* run_update (lines 354-364) and one repository of _on_timer (lines
\* 266-296): _update_repo (lines 158-264) and _save_store.  The git
\* invocation named by fail returns 1 without effect (timeout, lines
\* 131-134); repo.on_update and repo.on_conflict are configured.
UpdateRepo(fail) ==
    LET r == git.repo
        old == RevParseHead(r)
        f == [r EXCEPT !.origin = r.upstream]
        local == f.dirty.kind # "none" \/ f.stopped
        a1 == IF fail = "stash_push" THEN f ELSE StashPush(f)
        a2 == IF fail = "rebase" THEN a1 ELSE Rebase(a1)
        uu == a2.stopped \/ a2.dirty.kind = "unmerged"
        a3 == IF fail = "stash_pop" THEN a2 ELSE StashPop(a2)
        b1 == IF fail = "pull" THEN f ELSE Rebase(f)
        kept == git.state.last_status
        out ==
            CASE ~r.exists \/ fail \in {"rev_parse", "fetch"} ->
                    [repo |-> r, status |-> "error", last |-> kept, failed |-> TRUE]
              [] fail = "remote_rev_parse" ->
                    [repo |-> f, status |-> "error", last |-> kept, failed |-> TRUE]
              [] old = [base |-> f.origin, local |-> "none"] ->
                    [repo |-> f, status |-> "no_change", last |-> "no_change",
                     failed |-> FALSE]
              [] local /\ uu ->
                    [repo |-> StashPop(RebaseAbort(a2)), status |-> "conflict",
                     last |-> "conflict", failed |-> fail \in {"stash_push", "rebase"}]
              [] local ->
                    [repo |-> a3, status |-> "updated", last |-> "ok",
                     failed |-> fail \in {"stash_push", "rebase", "stash_pop"}]
              [] OTHER ->
                    [repo |-> b1, status |-> "updated", last |-> "ok",
                     failed |-> fail = "pull"]
        applied == IF out.status = "updated" THEN 1 ELSE 0
        state == [last_status |-> out.last,
                  updates_applied |-> git.state.updates_applied + applied]
    IN  /\ git.runs < MaxRuns
        /\ git' = [repo |-> out.repo, state |-> state, file |-> state,
                   id |-> git.id, file_id |-> git.id, restarts |-> git.restarts,
                   restarted |-> FALSE, persisted |-> git.persisted,
                   runs |-> git.runs + 1, touched |-> FALSE,
                   run |-> [status |-> out.status, failed |-> out.failed,
                            collided |-> /\ r.exists /\ fail = "none" /\ ~r.stopped
                                         /\ r.head.local = "none"
                                         /\ r.dirty.kind = "collide"
                                         /\ r.upstream > r.head.base,
                            quiet |-> ~git.touched,
                            old |-> old, dirty |-> r.dirty, applied |-> applied,
                            on_update |-> applied,
                            on_conflict |-> IF out.status = "conflict" THEN 1 ELSE 0,
                            prev_status |-> git.run.status,
                            prev_failed |-> git.run.failed]]
        /\ UNCHANGED offGit

\* The process ends and a new GitUpdater with the same configuration is
\* started on the same state file: start(), lines 326-335, runs _load_store
\* (a new GitRepo with a new uuid4 id and a default state, then the
\* persisted states matched by id) and _save_store.
GitRestart(id) ==
    LET state == RestoreById(id, git.file_id, git.file) IN
    /\ git.restarts < MaxRestarts
    /\ git' = [git EXCEPT !.id = id, !.state = state, !.file = state, !.file_id = id,
                          !.restarts = @ + 1, !.restarted = TRUE,
                          !.persisted = git.file]
    /\ UNCHANGED offGit

\* Somebody pushes a commit to the branch upstream.
UpstreamCommit ==
    /\ git.repo.upstream < MaxCommits
    /\ git' = [git EXCEPT !.repo.upstream = @ + 1, !.touched = TRUE]
    /\ UNCHANGED offGit

\* The user edits a tracked file of the clean working tree.
LocalEdit(kind) ==
    /\ git.repo.exists /\ ~git.repo.stopped /\ git.repo.dirty = Clean
    /\ git' = [git EXCEPT !.repo.dirty = [kind |-> kind, on |-> git.repo.head.base],
                          !.touched = TRUE]
    /\ UNCHANGED offGit

\* The user commits on the branch.
LocalCommit(kind) ==
    /\ git.repo.exists /\ ~git.repo.stopped /\ git.repo.dirty = Clean
    /\ git.repo.head.local = "none"
    /\ git' = [git EXCEPT !.repo.head.local = kind, !.touched = TRUE]
    /\ UNCHANGED offGit

(***************************************************************************)
(* AgentLoop.reload_context (loop.py lines 262-300) over the skill          *)
(* directories SkillsLoader.list_skills reads (skills.py lines 31-63).      *)
(***************************************************************************)
\* Calls of reload_context.
MaxReloads == 2

SkillNames == {"weather", "github", "notes"}

\* list_skills(filter_unavailable=False), skills.py lines 41-63: the names
\* of the workspace skills, then of the built-in skills not among them.
ListSkills(sk) == sk.workspace \cup {n \in sk.builtin : n \notin sk.workspace}

\* Frames of _init_summarizer the interpreter allows on the stack.
RecursionLimit == 3

\* AgentLoop.__init__ (loop.py lines 84-104) over the skill directories, up
\* to its call of _init_summarizer; loaded is the set of skills at the last
\* load or reload.  enabled is auto_summary_config["enabled"]; pc is "init"
\* or "reload" while the _init_summarizer called by __init__ or by
\* reload_context runs, "ready" once it has returned and "raised" once it
\* has raised; depth is its frames on the stack and installed the
\* summarizers it has handed to set_summarizer.
SkillsInit(workspace, builtin) ==
    [workspace |-> workspace, builtin |-> builtin, loaded |-> workspace \cup builtin,
     reloads |-> 0, before |-> {},
     result |-> [added |-> {}, removed |-> {}, modified |-> {}],
     enabled |-> FALSE, pc |-> "init", depth |-> 0, installed |-> 0]

\* What a frame of _init_summarizer does after its tests, lines 108-129:
\* it returns when auto-summary is off; otherwise it installs a summarizer
\* and, at line 129, calls itself, which the interpreter refuses at its
\* recursion limit.
InitSummarizerStep(enabled, depth) ==
    IF ~enabled THEN "return"
    ELSE IF depth < RecursionLimit THEN "call" ELSE "RecursionError"

\* One frame of _init_summarizer, lines 107-129.  A return ends every frame
\* below it, the call being each frame's last statement; the RecursionError
\* is raised outside the try of every frame and leaves __init__ or
\* reload_context.
InitSummarizer ==
    LET step == InitSummarizerStep(skills.enabled, skills.depth) IN
    /\ skills.pc \in {"init", "reload"}
    /\ skills' =
          [skills EXCEPT
              !.installed = IF step = "return" THEN @ ELSE @ + 1,
              !.depth = IF step = "call" THEN @ + 1 ELSE 0,
              !.pc = CASE step = "return" -> "ready"
                       [] step = "call" -> @
                       [] OTHER -> "raised"]
    /\ UNCHANGED offSkills

\* reload_context, lines 262-300, on a constructed loop, up to its call of
\* _init_summarizer, which returns at once when auto-summary is off (lines
\* 109-114).
ReloadContext ==
    LET old_names == ListSkills(skills)
        new_names == ListSkills(skills)
    IN  /\ skills.reloads < MaxReloads
        /\ skills.pc = "ready"
        /\ skills' = [skills EXCEPT !.reloads = @ + 1,
                                    !.pc = IF skills.enabled THEN "reload" ELSE "ready",
                                    !.depth = 0,
                                    !.installed = 0,
                                    !.before = skills.loaded,
                                    !.loaded = new_names,
                                    !.result = [added |-> new_names \ old_names,
                                                removed |-> old_names \ new_names,
                                                modified |-> {}]]
        /\ UNCHANGED offSkills

\* A skill directory with a SKILL.md is created in the workspace.
CreateSkill(name) ==
    /\ name \notin skills.workspace
    /\ skills' = [skills EXCEPT !.workspace = @ \cup {name}]
    /\ UNCHANGED offSkills

\* A skill directory is deleted from the workspace.
DeleteSkill(name) ==
    /\ name \in skills.workspace
    /\ skills' = [skills EXCEPT !.workspace = @ \ {name}]
    /\ UNCHANGED offSkills

(***************************************************************************)
(* StdioTransport (agent/mcp/transports.py) after start(): the pending map, *)
(* the read loop and the callers of _send_request.                          *)
(***************************************************************************)
\* Requests sent on one transport.
MaxRequests == 3

\* After start(), lines 95-120: the process runs, the read task reads, no
\* request is pending.  outcome is what each caller's _send_request ended
\* with; last is the close that has just happened and the requests that
\* were outstanding at it.  wire is the ids of the requests written to
\* stdin, in the order written; delivered is, for each response that
\* completed a future, the id of the future's request and the id the
\* response carried; received is the kinds of other lines read so far and
\* ended_by is what ended the read loop.
StdioInit ==
    [process |-> "running", reading |-> TRUE, request_id |-> 0, pending |-> {},
     outcome |-> <<>>, answered |-> {},
     last |-> [event |-> "none", outstanding |-> {}],
     wire |-> <<>>, delivered |-> <<>>, received |-> {}, ended_by |-> "none"]

\* _next_id, lines 280-283.
NextId(request_id) == request_id + 1

\* The future completed by a response carrying the first pending id.
PopOldest(pending, request_id) ==
    IF pending = {} THEN {} ELSE {CHOOSE id \in pending : \A other \in pending : id <= other}

\* _handle_message, line 268: self._pending.pop(request_id, None), as the
\* set of futures found.
PendingPop(pending, request_id) == pending \cap {request_id}

\* What MCPClient.call_tool hands its caller for an outcome of the
\* transport's call (client.py lines 220-227).
ClientCallTool(outcome) ==
    CASE outcome.kind = "result" -> <<"text", outcome.value>>
      [] outcome.kind = "MCPTransportError" -> <<"Error: ", outcome.value>>
      [] outcome.kind = "CancelledError" -> <<"raise", "CancelledError">>
      [] OTHER -> <<"pending">>

\* The caller takes _next_id() for its request and _send_request, lines
\* 285-299, runs up to its first await, the drain() after the write; written
\* is whether stdin took the message.
SendRequest(written) ==
    LET id == NextId(stdio.request_id) IN
    /\ stdio.request_id < MaxRequests
    /\ stdio' =
          [stdio EXCEPT
              !.request_id = id,
              !.wire = IF stdio.process = "running" /\ written THEN Append(@, id) ELSE @,
              !.pending = IF stdio.process = "running" /\ written THEN @ \cup {id} ELSE @,
              !.outcome = Append(@,
                  IF stdio.process = "stopped"
                  THEN [kind |-> "MCPTransportError", value |-> "Not connected"]
                  ELSE IF ~written
                  THEN [kind |-> "MCPTransportError", value |-> "Failed to send request"]
                  ELSE [kind |-> "waiting", value |-> ""]),
              !.last = StdioInit.last]
    /\ UNCHANGED offStdio

\* _handle_message, lines 263-278, for the server's response to request id,
\* a result or an error with a message; the server answers a request it was
\* sent once, in time or after the caller's timeout.
HandleMessage(id, kind) ==
    /\ stdio.reading
    /\ id \in 1..stdio.request_id
    /\ id \notin stdio.answered
    /\ stdio.outcome[id].kind # "MCPTransportError" \/ stdio.outcome[id].value = "Request timeout"
    /\ LET found == PendingPop(stdio.pending, id) IN
       stdio' =
          [stdio EXCEPT
              !.answered = @ \cup {id},
              !.pending = @ \ found,
              !.outcome = [future \in DOMAIN @ |->
                              IF future \in found
                              THEN IF kind = "error"
                                   THEN [kind |-> "MCPTransportError", value |-> "tool failed"]
                                   ELSE [kind |-> "result", value |-> "content"]
                              ELSE @[future]],
              !.delivered = IF found = {} THEN @
                            ELSE Append(@, <<CHOOSE future \in found : TRUE, id>>),
              !.last = StdioInit.last]
    /\ UNCHANGED offStdio

\* The kinds of line a server can send that are no well-formed response to
\* a pending request.
LineKinds ==
    {"blank", "invalid_json", "not_utf8", "number", "null", "string", "array",
     "notification", "unknown_id", "bad_error"}

\* What _read_loop, lines 241-257, and _handle_message do with such a line:
\* "continue" reads on, "raise" leaves the inner try with an exception that
\* only the outer except catches, "pop_raise" does so after the pending
\* future was popped.  A blank line is skipped (line 245) and a
\* JSONDecodeError logged (line 251); decode() of bytes that are not UTF-8
\* raises UnicodeDecodeError; the test "id" in message raises TypeError on a
\* number or null and is false on a string, an array and a notification;
\* pop() of an unknown id finds nothing; message["error"].get raises
\* AttributeError when the error is a string.
LineEffect(kind) ==
    CASE kind \in {"blank", "invalid_json", "string", "array", "notification", "unknown_id"}
            -> "continue"
      [] kind \in {"not_utf8", "number", "null"} -> "raise"
      [] kind = "bad_error" -> "pop_raise"

\* _read_loop reads one such line; id is the id it carries, if any.  After
\* a raise the outer except (lines 252-255) breaks the loop and lines
\* 258-261 fail what is pending.
ReceiveLine(kind, id) ==
    LET effect == LineEffect(kind)
        popped == IF effect = "pop_raise" THEN {id} ELSE {}
    IN
    /\ stdio.reading
    /\ kind = "bad_error" => id \in stdio.pending
    /\ kind = "unknown_id" => id \notin stdio.pending
    /\ kind \notin {"bad_error", "unknown_id"} => id = 0
    /\ stdio' =
          [stdio EXCEPT
              !.received = @ \cup {kind},
              !.answered = @ \cup popped,
              !.reading = effect = "continue",
              !.ended_by = IF effect = "continue" THEN @ ELSE "line",
              !.pending = IF effect = "continue" THEN @ ELSE {},
              !.outcome = [future \in DOMAIN @ |->
                              IF effect # "continue" /\ future \in stdio.pending \ popped
                              THEN [kind |-> "MCPTransportError",
                                    value |-> "Connection closed"]
                              ELSE @[future]],
              !.last = StdioInit.last]
    /\ UNCHANGED offStdio

\* _send_request, lines 301-306: the future is not done within the timeout.
RequestTimeout(id) ==
    /\ id \in DOMAIN stdio.outcome
    /\ stdio.outcome[id].kind = "waiting"
    /\ stdio' = [stdio EXCEPT
                    !.pending = @ \ {id},
                    !.outcome[id] = [kind |-> "MCPTransportError", value |-> "Request timeout"],
                    !.last = StdioInit.last]
    /\ UNCHANGED offStdio

\* _read_loop, lines 237-261: the server closes stdout; read() returns b""
\* and the loop ends.
ServerClosesStdout ==
    /\ stdio.reading
    /\ stdio' = [stdio EXCEPT
                    !.reading = FALSE,
                    !.ended_by = "eof",
                    !.pending = {},
                    !.outcome = [id \in DOMAIN @ |->
                                    IF id \in stdio.pending
                                    THEN [kind |-> "MCPTransportError",
                                          value |-> "Connection closed"]
                                    ELSE @[id]],
                    !.last = [event |-> "eof", outstanding |-> stdio.pending]]
    /\ UNCHANGED offStdio

\* stop(), lines 199-225: the read task is cancelled at its read() and the
\* CancelledError leaves _read_loop past its last lines; every pending
\* future is cancelled, which raises CancelledError in the caller's
\* wait_for.
StdioStop ==
    /\ stdio.process = "running"
    /\ stdio' = [stdio EXCEPT
                    !.process = "stopped",
                    !.reading = FALSE,
                    !.ended_by = IF stdio.reading THEN "stop" ELSE @,
                    !.pending = {},
                    !.outcome = [id \in DOMAIN @ |->
                                    IF id \in stdio.pending
                                    THEN [kind |-> "CancelledError", value |-> ""]
                                    ELSE @[id]],
                    !.last = [event |-> "stop", outstanding |-> stdio.pending]]
    /\ UNCHANGED offStdio

(***************************************************************************)
(* AgentLoop.run() and stop() (loop.py lines 228-260) with the inbound      *)
(* queue; processing a message is one await.                                *)
(***************************************************************************)
\* Messages published to the inbound queue.
MaxPublished == 5

\* AgentLoop.__init__, line 103; run() not called yet.
RunLoopInit ==
    [running |-> FALSE, pc |-> "new", queue |-> <<>>, published |-> 0,
     stopped |-> FALSE, taken_after_stop |-> FALSE]

\* run(), lines 230-233: _running is set and the loop entered.
RunStart ==
    /\ runLoop.pc = "new"
    /\ runLoop' = [runLoop EXCEPT !.running = TRUE, !.pc = "wait"]
    /\ UNCHANGED offRun

\* A channel publishes a message to the inbound queue.
RunPublish ==
    /\ runLoop.published < MaxPublished
    /\ runLoop' = [runLoop EXCEPT !.queue = Append(@, runLoop.published + 1),
                                  !.published = @ + 1]
    /\ UNCHANGED offRun

\* run(), lines 236-243: the consume_inbound() the loop is waiting in returns
\* a message.
RunTake ==
    /\ runLoop.pc = "wait"
    /\ runLoop.queue # <<>>
    /\ runLoop' = [runLoop EXCEPT !.queue = Tail(@), !.pc = "process",
                                  !.taken_after_stop = @ \/ runLoop.stopped]
    /\ UNCHANGED offRun

\* run(), lines 233 and 243-256: the message is processed, or the wait timed
\* out with an empty queue; the loop tests _running again.
RunLoopHead ==
    /\ \/ runLoop.pc = "process"
       \/ runLoop.pc = "wait" /\ runLoop.queue = <<>>
    /\ runLoop' = [runLoop EXCEPT !.pc = IF runLoop.running THEN "wait" ELSE "returned"]
    /\ UNCHANGED offRun

\* stop(), lines 257-260; stopped records a stop() called after run() began.
RunStop ==
    /\ runLoop' = [runLoop EXCEPT !.running = FALSE,
                                  !.stopped = @ \/ runLoop.pc # "new"]
    /\ UNCHANGED offRun

\* The other components while one of them is looked at.
AuxIdle ==
    /\ runLoop = RunLoopInit
    /\ cron = CronInit([exists |-> FALSE, jobs |-> <<>>])
    /\ git = GitInit(TRUE)
    /\ skills = SkillsInit({}, {})
    /\ stdio = StdioInit

NoTurn ==
    [status |-> "none", by |-> "", msg |-> InboundMessage(<<>>, "", <<>>, ""), seq |-> 0,
     arg_key |-> <<>>, key |-> <<>>, before |-> <<>>,
     response |-> OutboundMessage(<<>>, <<>>, ""), llm_calls |-> 0, final |-> None,
     tool_rounds |-> 0]

\* After AgentLoop.__init__: nothing queued, no session loaded.
AgentInit ==
    /\ inbound = <<>>
    /\ outbound = <<>>
    /\ nextSeq = 1
    /\ task = [t \in Tasks |-> IdleTurn]
    /\ sessions = <<>>
    /\ disk = <<>>
    /\ tool_ctx = NoAddress
    /\ last = NoTurn

Init == AgentInit /\ SummaryIdle /\ ToolsIdle /\ McpIdle /\ AuxIdle

Next ==
    \/ \E m \in BusMessages : Publish(m)
    \/ RunConsume
    \/ \E t \in DirectTasks : ProcessDirect(t)
    \/ \E t \in Tasks : LLMRespond(t)
    \/ \E t \in Tasks : ToolReturn(t)

Spec == Init /\ [][Next]_vars

\* A ContextBuilder with a configuration and a summarizer set or not, and a
\* history to build messages from.
InitSummary ==
    /\ AgentInit
    /\ sumCfg \in SumConfigs
    /\ sumHist \in Histories
    /\ sumCall = [c \in SumCallers |-> IdleCall]
    /\ summarizing = {}
    /\ llmCalls = 0
    /\ sumOut = NoOutput
    /\ ToolsIdle
    /\ McpIdle
    /\ AuxIdle

NextSummary ==
    \/ \E c \in SumCallers, session_key \in SummaryKeys : MaybeSummarize(c, session_key)
    \/ \E c \in SumCallers : SummaryReturns(c)
    \/ ApplySummaryCall

SpecSummary == InitSummary /\ [][NextSummary]_vars

\* The native tools registered with the workspace, over a filesystem layout;
\* the process was started in the workspace or at the root.
InitTools ==
    /\ AgentInit
    /\ SummaryIdle
    /\ fs \in FsLayouts
    /\ toolEnv \in { [proc_cwd |-> d, restrict_to_workspace |-> r] :
                        d \in {Workspace, <<>>}, r \in BOOLEAN }
    /\ toolCall = NoCall
    /\ nToolCalls = 0
    /\ McpIdle
    /\ AuxIdle

NextTools ==
    \/ \E path \in FsPaths : ReadFile(path)
    \/ \E path \in FsPaths : WriteFile(path)
    \/ \E path \in FsPaths, occurrences \in 0..2 : EditFile(path, occurrences)
    \/ \E path \in FsPaths : ListDir(path)
    \/ \E command \in Commands, installed \in BOOLEAN : Exec(command, installed)

SpecTools == InitTools /\ [][NextTools]_vars

\* The MCP client after construction, for each configuration.
InitMcp ==
    /\ AgentInit
    /\ SummaryIdle
    /\ ToolsIdle
    /\ mcpConfig \in McpConfigs
    /\ McpInit
    /\ AuxIdle

\* The content lists of at most MaxBlocks blocks.
Contents == UNION { [1..k -> Blocks] : k \in 0..MaxBlocks }

NextMcp ==
    \/ Connect
    \/ ConnectLocked
    \/ \E t \in {"connect", "health"},
          outcome \in {"ok", "not_started", "initialize_failed"} :
              TransportStarted(t, outcome)
    \/ \E t \in {"connect", "health"} : ListToolsDone(t)
    \/ \E t \in {"connect", "health"} : ListResourcesDone(t)
    \/ Disconnect
    \/ DisconnectStopped
    \/ CheckAndReconnect
    \/ ReconnectWake
    \/ ReconnectStopped
    \/ TransportDies
    \/ GetStatusSummary
    \/ \E content \in Contents : CallTool(content)

SpecMcp == InitMcp /\ [][NextMcp]_vars

\* The agent loop after construction, with channels publishing and a caller
\* of run() and stop().
InitRun ==
    /\ AgentInit /\ SummaryIdle /\ ToolsIdle /\ McpIdle
    /\ AuxIdle

NextRun == RunStart \/ RunPublish \/ RunTake \/ RunLoopHead \/ RunStop

SpecRun == InitRun /\ [][NextRun]_vars

\* A CronTool constructed at a store path, for each store file found there.
InitCron ==
    /\ AgentInit /\ SummaryIdle /\ ToolsIdle /\ McpIdle
    /\ runLoop = RunLoopInit
    /\ cron \in { CronInit(file) : file \in CronFiles }
    /\ git = GitInit(TRUE) /\ skills = SkillsInit({}, {}) /\ stdio = StdioInit

NextCron ==
    \/ \E schedule_type \in {"at", "every", "cron"}, at \in {Null, <<"soon">>, <<"2024-03-15T14:30:01">>, <<"2024-03-15T14:30:03">>},
          every_seconds \in {Null, <<0>>, <<-1>>, <<2>>},
          cron_expr \in {Null, <<"0 9 * * *">>, <<"bad">>}, deliver \in BOOLEAN :
              AddJob(schedule_type, at, every_seconds, cron_expr, deliver)
    \/ \E job_id \in {"", "test123", "gone"} \cup {Uuids[i] : i \in 1..MaxAdds} :
          RemoveJob(job_id)
    \/ CronTick

SpecCron == InitCron /\ [][NextCron]_vars

\* The CronTool next to another writer of its jobs file.
NextCronShared == NextCron \/ OtherWriter

SpecCronShared == InitCron /\ [][NextCronShared]_vars

\* A GitUpdater for one repository, whose path exists or not.
InitGit ==
    /\ AgentInit /\ SummaryIdle /\ ToolsIdle /\ McpIdle
    /\ runLoop = RunLoopInit
    /\ cron = CronInit([exists |-> FALSE, jobs |-> <<>>])
    /\ git \in { GitInit(exists) : exists \in BOOLEAN }
    /\ skills = SkillsInit({}, {}) /\ stdio = StdioInit

NextGit ==
    \/ \E fail \in {"none", "rev_parse", "fetch", "remote_rev_parse", "stash_push",
                     "rebase", "stash_pop", "pull"} : UpdateRepo(fail)
    \/ \E id \in RepoIds : GitRestart(id)
    \/ UpstreamCommit
    \/ \E kind \in {"apart", "collide"} : LocalEdit(kind)
    \/ \E kind \in {"apart", "collide"} : LocalCommit(kind)

SpecGit == InitGit /\ [][NextGit]_vars

\* An agent loop constructed over a workspace with some skills, with or
\* without the built-in skill.
InitSkills ==
    /\ AgentInit /\ SummaryIdle /\ ToolsIdle /\ McpIdle
    /\ runLoop = RunLoopInit
    /\ cron = CronInit([exists |-> FALSE, jobs |-> <<>>])
    /\ git = GitInit(TRUE)
    /\ skills \in { [SkillsInit(workspace, builtin) EXCEPT !.enabled = enabled] :
                       workspace \in SUBSET SkillNames, builtin \in {{}, {"github"}},
                       enabled \in BOOLEAN }
    /\ stdio = StdioInit

NextSkills ==
    \/ InitSummarizer
    \/ ReloadContext
    \/ \E name \in SkillNames : CreateSkill(name)
    \/ \E name \in SkillNames : DeleteSkill(name)

SpecSkills == InitSkills /\ [][NextSkills]_vars

\* A started stdio transport, its server and the callers of its requests.
InitStdio ==
    /\ AgentInit /\ SummaryIdle /\ ToolsIdle /\ McpIdle
    /\ AuxIdle

NextStdio ==
    \/ \E written \in BOOLEAN : SendRequest(written)
    \/ \E id \in 1..MaxRequests, kind \in {"result", "error"} : HandleMessage(id, kind)
    \/ \E id \in 1..MaxRequests : RequestTimeout(id)
    \/ \E kind \in LineKinds, id \in 0..MaxRequests : ReceiveLine(kind, id)
    \/ ServerClosesStdout
    \/ StdioStop

SpecStdio == InitStdio /\ [][NextStdio]_vars


(***************************************************************************)
(* Properties of the agent loop.                                           *)
(***************************************************************************)
Processing == {t \in Tasks : task[t].pc # "idle"}

\* C1: at no time are two messages being processed at once: while one
\* _process_message call is between its start and its end, no other one has
\* started, whether it came through run() or through process_direct.
C1_NoTwoProcessing == Cardinality(Processing) <= 1

\* C2: in every session the (user, assistant) pairs appear in the order in
\* which their messages arrived.
C2_HistoryInArrivalOrder ==
    \A key \in DOMAIN sessions :
        \A i, j \in 1..Len(sessions[key]) :
            i < j => sessions[key][i].seq <= sessions[key][j].seq

CapReply == "I've completed processing but have no response to give."

\* Every LLM response of the turn carried tool calls.
AllToolRounds(turn) == turn.tool_rounds = turn.llm_calls

\* C3 as stated: a turn makes at most max_iterations LLM calls and ends, and
\* when every response carried tool calls its reply is the cap reply.
C3_CapReplyAlways ==
    /\ \A t \in Tasks : task[t].iteration <= MaxIterations
    /\ last.status = "ok" =>
          /\ last.llm_calls <= MaxIterations
          /\ AllToolRounds(last) => last.response.content = CapReply

\* C3, amended: a turn makes at most max_iterations LLM calls and ends; when
\* every response carried tool calls, a turn is at the cap and its reply is the
\* cap reply for a message of a chat channel and "Background task completed."
\* for a system-channel message.
C3_IterationCap ==
    /\ \A t \in Tasks : task[t].iteration <= MaxIterations
    /\ last.status = "ok" =>
          /\ last.llm_calls <= MaxIterations
          /\ AllToolRounds(last) =>
                /\ last.llm_calls = MaxIterations
                /\ last.response.content =
                      IF last.msg.channel = <<"system">>
                      THEN "Background task completed." ELSE CapReply

C3_Witness ==
    /\ last.status = "ok"
    /\ AllToolRounds(last)
    /\ last.msg.channel # <<"system">>
    /\ last.response.content = CapReply

\* The two records a turn on message m with reply r adds to its session, when
\* the user record holds the content u.
TurnPair(u, r, seq) == << SessionEntry("user", u, seq), SessionEntry("assistant", r, seq) >>

\* C4 as stated: a processed message has added to its session exactly (user,
\* original content) and (assistant, reply), and the session has been saved.
C4_PairOfOriginalContent ==
    last.status = "ok" =>
        /\ sessions[last.key] =
              last.before \o TurnPair(last.msg.content, last.response.content, last.seq)
        /\ disk[last.key] = sessions[last.key]

\* C4, amended: a processed message has added to its session exactly two
\* records, whatever the number of tool rounds: (user, u) then (assistant,
\* reply), where u is the original content for a message of a chat channel and
\* "[System: <sender_id>] " followed by the content for a system-channel
\* message; and the session has been saved.
C4_PairAppendedAndSaved ==
    last.status = "ok" =>
        /\ sessions[last.key] =
              last.before \o TurnPair(
                  IF last.msg.channel = <<"system">>
                  THEN "[System: " \o last.msg.sender_id \o "] " \o last.msg.content
                  ELSE last.msg.content,
                  last.response.content, last.seq)
        /\ disk[last.key] = sessions[last.key]

C4_Witness ==
    /\ last.status = "ok"
    /\ last.tool_rounds >= 1
    /\ Len(last.before) = 2
    /\ Len(sessions[last.key]) = 4

\* What a response's tool calls must leave in the message list: the assistant
\* message holding them, then one tool message per call, in the calls' order.
RoundShape(calls) ==
    << [role |-> "assistant", tool_call_id |-> None,
        tool_calls |-> [j \in 1..Len(calls) |->
                           [id |-> calls[j].id, type |-> "function",
                            function |-> [name |-> calls[j].name,
                                          arguments |-> calls[j].arguments]]]] >>
    \o [j \in 1..Len(calls) |->
           [role |-> "tool", tool_call_id |-> calls[j].id, tool_calls |-> <<>>]]

RECURSIVE RoundsShape(_)
RoundsShape(resps) ==
    IF resps = <<>> THEN <<>>
    ELSE RoundShape(Head(resps)) \o RoundsShape(Tail(resps))

MessagesShape(messages) ==
    [i \in 1..Len(messages) |->
        [role |-> messages[i].role, tool_call_id |-> messages[i].tool_call_id,
         tool_calls |-> messages[i].tool_calls]]

\* C5: within a turn, each LLM response with k >= 1 tool calls is followed in
\* the message list by one assistant message holding the k calls and then k
\* tool messages, one per call, in order, each with its call's id; all of them
\* are there when the next LLM call is made (only the calls still to return
\* are missing while the tools run).
C5_ToolRoundsInMessages ==
    \A t \in Processing :
        LET turn == task[t]
            added == SubSeq(turn.messages, turn.base + 1, Len(turn.messages))
            want == RoundsShape(turn.resps)
        IN  /\ turn.pc = "llm" => turn.pending = <<>>
            /\ Len(turn.pending) <= Len(want)
            /\ MessagesShape(added) = SubSeq(want, 1, Len(want) - Len(turn.pending))

C5_Witness ==
    \E t \in Tasks :
        /\ task[t].pc = "llm"
        /\ task[t].iteration = 2
        /\ Len(task[t].resps) = 1
        /\ Len(task[t].resps[1]) = 2
        /\ Len(task[t].messages) = task[t].base + 3

Apology == "Sorry, I encountered an error: boom"

\* The outbound messages published for the message that arrived seq-th.
RepliesTo(seq) == {i \in 1..Len(outbound) : outbound[i].seq = seq}

\* The chat a message came from: its channel and chat, for a system-channel
\* message the channel and chat encoded in its chat_id.
OriginatingChat(msg) ==
    IF msg.channel = <<"system">> THEN ParseOrigin(msg.chat_id)
    ELSE [channel |-> msg.channel, chat_id |-> msg.chat_id]

IsOriginEncoded(msg) == msg.channel = <<"system">> /\ ":" \in Range(msg.chat_id)

\* C6: when processing an inbound message raises, run() publishes exactly one
\* apology, on the originating chat (for a system-channel message "c:i": on
\* channel c, chat i), and is ready for the next message.
C6_ApologyOnOriginatingChat ==
    (last.status = "raised" /\ last.by = "run") =>
        /\ task["run"].pc = "idle" \/ task["run"].seq # last.seq
        /\ \E i \in 1..Len(outbound) :
              /\ RepliesTo(last.seq) = {i}
              /\ outbound[i].content = Apology
              /\ (last.msg.channel # <<"system">> \/ IsOriginEncoded(last.msg)) =>
                    /\ outbound[i].channel = OriginatingChat(last.msg).channel
                    /\ outbound[i].chat_id = OriginatingChat(last.msg).chat_id

\* The message of a chat channel that a system message "c:i" stands for.
NormalOf(msg) ==
    InboundMessage(ParseOrigin(msg.chat_id).channel, msg.sender_id,
                   ParseOrigin(msg.chat_id).chat_id, msg.content)

\* C7 as stated: a system message with chat_id "c:i" is processed exactly like
\* a normal message on channel c, chat i: same session, same addressee, same
\* reply content for the same LLM behaviour, same two session records.
C7_SystemLikeNormal ==
    (last.status = "ok" /\ IsOriginEncoded(last.msg)) =>
        LET n == NormalOf(last.msg) IN
        /\ last.key = SessionKey(n)
        /\ last.response = OutboundMessage(n.channel, n.chat_id, FinalContent(n, last.final))
        /\ sessions[last.key] =
              last.before \o TurnPair(UserRecord(n), FinalContent(n, last.final), last.seq)

\* C7, amended: a system message with chat_id "c:i" uses the session "c:i" and
\* its reply is addressed to (c, i); when the LLM's last response carries a
\* text, the reply is that text, as in the normal flow; when the loop ends
\* without one, the reply is "Background task completed."; the two records it
\* appends are (user, "[System: <sender_id>] " + content) and (assistant, reply).
C7_SystemTurn ==
    (last.status = "ok" /\ IsOriginEncoded(last.msg)) =>
        LET n == NormalOf(last.msg)
            reply == IF last.final # None THEN FinalContent(n, last.final)
                     ELSE "Background task completed."
        IN  /\ last.key = SessionKey(n)
            /\ last.key = last.msg.chat_id
            /\ last.response = OutboundMessage(n.channel, n.chat_id, reply)
            /\ sessions[last.key] =
                  last.before \o TurnPair(
                      "[System: " \o last.msg.sender_id \o "] " \o last.msg.content,
                      reply, last.seq)

C7_Witness ==
    /\ last.status = "ok"
    /\ IsOriginEncoded(last.msg)
    /\ last.final = None
    /\ AllToolRounds(last)
    /\ last.response.channel = <<"telegram">>

\* C8: process_direct(content, session_key = k, ...) runs the turn against the
\* session whose key is k.
C8_DirectUsesGivenSession ==
    (last.status = "ok" /\ last.by \in DirectTasks) =>
        /\ last.key = last.arg_key
        /\ last.arg_key \in DOMAIN sessions
        /\ sessions[last.arg_key] =
              last.before \o TurnPair(last.msg.content, last.response.content, last.seq)

(***************************************************************************)
(* The summarizer.                                                         *)
(***************************************************************************)
\* The trigger threshold in effect, as the configuration page states it.
EffectiveT2 ==
    IF sumCfg.threshold_high > sumCfg.threshold_low
    THEN sumCfg.threshold_high
    ELSE sumCfg.threshold_low + 200

\* The estimated token total of the history: tool messages and empty
\* messages count nothing, user and assistant messages count cleaned.
RECURSIVE EstimatedTotal(_)
EstimatedTotal(H) ==
    IF H = <<>> THEN 0
    ELSE LET m == Head(H)
             text == IF m.role \in {"user", "assistant"}
                     THEN Text(m.content.str, m.content.a, m.content.n, 0)
                     ELSE m.content
             chars == text.a + text.n + text.j
             tokens == IF m.role = "tool" \/ chars = 0 THEN 0
                       ELSE IF ((text.a + text.j) \div 4) + text.n < 1 THEN 1
                       ELSE ((text.a + text.j) \div 4) + text.n
         IN  tokens + EstimatedTotal(Tail(H))

\* C9: a history whose estimated token total is at most the effective trigger
\* threshold T2 (the configured T2, or T1 + 200 when the configured T2 is not
\* greater than T1) is returned unchanged by _maybe_summarize, which makes no
\* LLM call for it.
C9_BelowThresholdUnchanged ==
    EstimatedTotal(sumHist) <= EffectiveT2 =>
        /\ llmCalls = 0
        /\ \A c \in SumCallers :
              /\ sumCall[c].pc \in {"idle", "done"}
              /\ sumCall[c].pc = "done" =>
                    /\ sumCall[c].result = sumHist
                    /\ sumCall[c].llm_calls = 0

\* A history of exactly T2 tokens, with messages beyond the T1 tail, has gone
\* through an enabled _maybe_summarize that has a summarizer.
C9_Witness ==
    /\ sumCfg.enabled /\ sumCfg.has_summarizer
    /\ EstimatedTotal(sumHist) = EffectiveT2
    /\ CompressIndices(sumHist, PreservedTail(sumHist, sumCfg.threshold_low).indices) # {}
    /\ \E c \in SumCallers : sumCall[c].pc = "done" /\ sumCall[c].result = sumHist

\* The tokens of a message in the tail sum: tool and system messages are
\* ignored.
TailTokens(m) ==
    IF m.role \in {"tool", "system"} THEN 0
    ELSE LET content == CleanMessageContent(m, TRUE)
         IN  IF Truthy(content) THEN EstimateTokens(content.text) ELSE 0

RECURSIVE SumTailTokens(_)
SumTailTokens(H) ==
    IF H = <<>> THEN 0 ELSE TailTokens(Head(H)) + SumTailTokens(Tail(H))

\* The longest suffix of H whose token sum does not exceed T1.
LongestSuffix(H, T1) ==
    LET fits == {k \in 0..Len(H) : SumTailTokens(SubSeq(H, Len(H) - k + 1, Len(H))) <= T1}
        k == CHOOSE x \in fits : \A y \in fits : y <= x
    IN  SubSeq(H, Len(H) - k + 1, Len(H))

\* C10: for thresholds T1 < T2, apply_summary(H, s, T1) returns the message
\* (assistant, "[AutoSummary]" newline s) followed by exactly the longest
\* suffix of H whose token sum, tool and system messages ignored in the sum,
\* does not exceed T1.
C10_SummaryThenLongestSuffix ==
    (sumOut.op = "apply_summary" /\ sumCfg.threshold_low < sumCfg.threshold_high) =>
        /\ Len(sumOut.result) >= 1
        /\ sumOut.result[1].role = "assistant"
        /\ sumOut.result[1].content.str = "[AutoSummary]\n" \o sumOut.summary.str
        /\ Tail(sumOut.result) = LongestSuffix(sumHist, sumOut.retain_tokens)

\* The preserved tail of H for the retain threshold T1: the messages that
\* count in the tail sum and that, with every message after them, stay within
\* T1.
PreservedTailOf(H, T1) ==
    LET kept == {i \in 1..Len(H) :
                    TailTokens(H[i]) > 0 /\ SumTailTokens(SubSeq(H, i, Len(H))) <= T1}
        F[i \in 0..Len(H)] ==
            IF i = 0 THEN <<>>
            ELSE IF i \in kept THEN Append(F[i - 1], H[i]) ELSE F[i - 1]
    IN  F[Len(H)]

\* C11: when the summarizer's LLM call was made and raised or gave an empty
\* result, the processed history is exactly the preserved tail, with no summary
\* message in front; when it gave a non-empty text, the processed history is
\* the summary message followed by that same preserved tail.
C11_FallbackIsTail ==
    \A c \in SumCallers :
        (sumCall[c].pc = "done" /\ sumCall[c].llm_calls = 1) =>
            LET tail == PreservedTailOf(sumHist, sumCfg.threshold_low)
            IN  IF sumCall[c].outcome \in {"raise", ""}
                THEN sumCall[c].result = tail
                ELSE sumCall[c].result =
                        << [role |-> "assistant",
                            content |-> Text("[AutoSummary]\n" \o sumCall[c].outcome,
                                             14 + Len(sumCall[c].outcome), 0, 0)] >>
                        \o tail

\* One call ended on a raising LLM call and another on a summary text, for a
\* history with a tail that is neither empty nor the whole history.
C11_Witness ==
    /\ sumCall["a"].pc = "done" /\ sumCall["a"].outcome = "raise"
    /\ sumCall["b"].pc = "done" /\ sumCall["b"].outcome = "COMPRESSED"
    /\ sumCall["a"].result # <<>>
    /\ sumCall["a"].result # sumHist
    /\ Len(sumCall["b"].result) = Len(sumCall["a"].result) + 1

\* The calls that hold the summarizer's LLM call for a session key.
InFlight(key) == {c \in SumCallers : sumCall[c].pc = "llm" /\ sumCall[c].session_key = key}

\* At most one summarization in flight per session key, and the in-flight set
\* is exactly the keys of the summarizations in flight.
OneInFlightPerKey ==
    /\ \A key \in SummaryKeys \ {None} : Cardinality(InFlight(key)) <= 1
    /\ summarizing = {key \in SummaryKeys \ {None} : InFlight(key) # {}}

\* A call made for a key that has a summarization in flight returns its input
\* unchanged and calls no LLM.
DuplicateReturnsInput ==
    \A c \in SumCallers :
        (sumCall[c].pc = "idle" /\ sumCall'[c].pc # "idle"
            /\ sumCall'[c].session_key \in summarizing) =>
            /\ sumCall'[c].pc = "done"
            /\ sumCall'[c].result = sumHist
            /\ sumCall'[c].llm_calls = 0
            /\ llmCalls' = llmCalls

\* C12: under any interleaving of calls, at most one summarization is in flight
\* per session key; a call for a key already in flight returns its input
\* history unchanged without an LLM call; the key leaves the in-flight set when
\* the summarization ends, on every path.
C12_OneSummarizationPerKey ==
    []OneInFlightPerKey /\ [][DuplicateReturnsInput]_vars

\* A call was turned away while another held the same key, for a history that
\* is over the trigger threshold.
C12_Witness ==
    /\ sumCfg.enabled /\ sumCfg.has_summarizer
    /\ ShouldSummarize(sumHist, sumCfg.threshold_low, sumCfg.threshold_high)
    /\ sumCall["a"].pc = "llm" /\ sumCall["a"].session_key = "telegram:42"
    /\ sumCall["b"].pc = "done" /\ sumCall["b"].session_key = "telegram:42"
    /\ sumCall["b"].result = sumHist /\ sumCall["b"].llm_calls = 0
    /\ summarizing = {"telegram:42"}

(***************************************************************************)
(* The native tools.                                                       *)
(***************************************************************************)
FileTools == {"read_file", "write_file", "edit_file", "list_dir"}

\* The real path of a touched path lies in the workspace.
InsideWorkspace(p) ==
    IsRelativeTo(Resolve(fs, <<>>, PathArg(TRUE, p)), Workspace)

C14_DotDotRejected ==
    (toolCall.tool \in FileTools
        /\ \E i \in 1..Len(toolCall.path.parts) : toolCall.path.parts[i] = "..") =>
        /\ toolCall.result = "Error: Path traversal detected"
        /\ toolCall.touched = {}

\* C15: exec spawns a process only for a command whose program name (the
\* basename of its first word) is in the allowlist; any other command returns
\* an error string and spawns nothing.
C15_OnlyAllowlistedSpawn ==
    toolCall.tool = "exec" =>
        LET name == toolCall.command[1].parts[Len(toolCall.command[1].parts)]
        IN  /\ toolCall.spawned.started => name \in SafeCommands
            /\ name \notin SafeCommands =>
                  toolCall.result \in ErrorResults /\ ~toolCall.spawned.started

\* C16: with restrict_to_workspace on, exec spawns no command that has an
\* argument which, read as a path from the working directory, resolves outside
\* the working directory.
C16_NoArgumentOutsideCwd ==
    (toolCall.tool = "exec" /\ toolEnv.restrict_to_workspace
        /\ toolCall.spawned.started) =>
        \A i \in 2..Len(toolCall.spawned.args) :
            toolCall.spawned.args[i].kind = "word" =>
                IsRelativeTo(Resolve(fs, toolCall.spawned.cwd, toolCall.spawned.args[i]),
                             toolCall.spawned.cwd)

(***************************************************************************)
(* The MCP client.                                                         *)
(***************************************************************************)
\* C17: for a tools/call result whose content is a list of text, resource and
\* image blocks, the string handed to the agent is the blocks' renderings (the
\* text, "[Resource: <uri>]", "[Image: <mimeType>, <length of data> chars]")
\* joined by newlines in block order, on the stdio and on the SSE transport
\* alike.
C17_BlocksRenderedAlike ==
    (mcpSeen.called /\ IsConnected(Server) /\ mcpSeen.content # <<>>) =>
        LET content == mcpSeen.content
            rendering(item) ==
                IF item.type = "text" THEN item.text
                ELSE IF item.type = "resource" THEN <<"[Resource: ", item.uri, "]">>
                ELSE <<"[Image: ", item.mimeType, ", ", Len(item.data), " chars]">>
        IN  mcpSeen.result = Join([i \in 1..Len(content) |-> rendering(content[i])])

\* C18: whenever a read path of the client runs, it sees the server's name in
\* the transport map if and only if the name has an entry in the tools cache
\* and in the resources cache.
C18_ReadersSeeConsistentTriple ==
    mcpSeen.read =>
        (mcpSeen.in_transports <=> (mcpSeen.has_tools /\ mcpSeen.has_resources))

C28_EveryStartedTransportOwned == ~mcpLeaked

(***************************************************************************)
(* Properties of AgentLoop.run() and stop().                               *)
(***************************************************************************)
\* C27: once stop() has been called on a running loop, run() takes no further
\* message from the inbound queue.
C27_NoTakeAfterStop == ~runLoop.taken_after_stop

(***************************************************************************)
(* Properties of the cron tool.                                            *)
(***************************************************************************)
\* C21: after any sequence of add and remove operations a fresh CronTool
\* that loads the store file recovers exactly the jobs of the in-memory
\* store, in the same order and with every field equal.
C21_ReloadRecoversJobs == cron.loaded => LoadJobs(cron.file) = cron.jobs

\* Jobs of both schedule kinds were added, one was removed, and an at job
\* (delete_after_run set) with a delivery target is among those left.
C21_Witness ==
    /\ cron.last.op = "remove"
    /\ cron.last.result[1] # "Error:"
    /\ cron.jobs # <<>>
    /\ \E i \in 1..Len(cron.jobs) :
          cron.jobs[i].delete_after_run /\ cron.jobs[i].payload.deliver

\* C22: an add with schedule type every whose every_seconds is missing, zero
\* or negative returns a string starting with "Error:" and adds no job: the
\* in-memory store and the store file are as before the call.
C22_BadEveryRejected ==
    [][(/\ cron'.last.op = "add"
       /\ cron'.last.schedule_type = "every"
       /\ cron'.last.every_seconds \in {Null, <<0>>, <<-1>>})
       => (/\ cron'.last.result # <<>>
           /\ cron'.last.result[1] = "Error:"
           /\ LoadStore(cron') = LoadStore(cron)
           /\ cron'.file = cron.file)]_vars

\* An add of an every job without every_seconds was refused while the store
\* held a job.
C22_Witness ==
    /\ cron.last.op = "add"
    /\ cron.last.schedule_type = "every"
    /\ cron.last.every_seconds = Null
    /\ cron.last.result[1] = "Error:"
    /\ cron.jobs # <<>>

(***************************************************************************)
(* Properties of the git updater.                                          *)
(***************************************************************************)
\* C23: whenever a git invocation of an update run fails (missing path,
\* rev-parse, fetch, pull, rebase, stash, timeout), the repository's persisted
\* last_status is "error" after the run, whatever it was before.
C23_FailureSetsError ==
    (git.runs > 0 /\ ~git.touched /\ git.run.failed) => git.file.last_status = "error"

\* C24: a run on a tree whose uncommitted change collides with the upstream
\* changes ends with status conflict, HEAD as before the run, the stash
\* popped and the tree holding the original change, on_conflict run exactly
\* once, updates_applied not incremented and on_update not run.
C24_CollisionIsConflict ==
    (git.runs > 0 /\ ~git.touched /\ git.run.collided)
        => /\ git.run.status = "conflict"
           /\ RevParseHead(git.repo) = git.run.old
           /\ git.repo.stash = <<>>
           /\ git.repo.dirty = git.run.dirty
           /\ git.run.on_conflict = 1
           /\ git.run.applied = 0
           /\ git.run.on_update = 0

\* C25: when a run ended with status updated, a second run started right
\* after it, with no upstream commit in between, ends with status no_change.
C25_SecondRunNoChange ==
    (/\ git.runs > 1 /\ ~git.touched /\ git.run.quiet
     /\ git.run.prev_status = "updated"
     /\ ~git.run.prev_failed /\ ~git.run.failed)
        => git.run.status = "no_change"

(***************************************************************************)
(* Properties of reload_context.                                           *)
(***************************************************************************)
\* C26: reload_context() returns as added the skills that exist now and did
\* not exist when the context was last loaded or reloaded, and as removed
\* the skills that existed then and exist no longer.
C26_ReloadReportsDiff ==
    skills.reloads > 0 /\ skills.loaded = ListSkills(skills)
        => /\ skills.result.added = skills.loaded \ skills.before
           /\ skills.result.removed = skills.before \ skills.loaded

(***************************************************************************)
(* Properties of the stdio transport.                                      *)
(***************************************************************************)
\* C29: when a stdio transport is stopped, or its server closes stdout,
\* while requests are outstanding, every outstanding request completes at
\* its caller with MCPTransportError "Connection closed", which call_tool
\* turns into an error string, and the pending map is empty afterwards.
C29_OutstandingGetConnectionClosed ==
    stdio.last.event \in {"stop", "eof"}
        => /\ stdio.pending = {}
           /\ \A id \in stdio.last.outstanding :
                 /\ stdio.outcome[id] = [kind |-> "MCPTransportError",
                                         value |-> "Connection closed"]
                 /\ ClientCallTool(stdio.outcome[id])[1] = "Error: "

\* C30: every request sent completes with the result of its response, with
\* a transport error carrying the response's error message, with a timeout
\* transport error or with a connection error; after a timeout its id is no
\* longer in the pending map.
C30_RequestsCompleteAsSpecified ==
    \A id \in 1..stdio.request_id :
        /\ stdio.outcome[id].kind \in {"waiting", "result", "MCPTransportError"}
        /\ stdio.outcome[id].kind = "waiting" <=> id \in stdio.pending

(***************************************************************************)
(* Properties of the token estimate.                                       *)
(***************************************************************************)
\* The texts of the history handed to the summarizer.
HistoryTexts == {sumHist[i].content : i \in 1..Len(sumHist)}

\* C32 as stated: for every non-empty string the token estimate equals
\* ceil(ascii_chars / 4) + non_ascii_chars and is at least 1; for the empty
\* string it is 0.
C32_EstimateIsCeiling ==
    \A text \in HistoryTexts :
        LET ascii_chars == text.a + text.j
            estimate == EstimateTokens(text)
        IN  IF ascii_chars + text.n = 0 THEN estimate = 0
            ELSE /\ estimate >= 1
                 /\ \E q \in 0..ascii_chars :
                       /\ 4 * q >= ascii_chars
                       /\ 4 * q < ascii_chars + 4
                       /\ estimate = q + text.n

\* C32 amended: for every non-empty string the token estimate equals
\* floor(ascii_chars / 4) + non_ascii_chars, raised to 1 when that is 0; for
\* the empty string it is 0.
C32_EstimateIsFloor ==
    \A text \in HistoryTexts :
        LET ascii_chars == text.a + text.j
            estimate == EstimateTokens(text)
        IN  IF ascii_chars + text.n = 0 THEN estimate = 0
            ELSE /\ estimate >= 1
                 /\ \E q \in 0..ascii_chars :
                       /\ 4 * q <= ascii_chars
                       /\ 4 * q + 4 > ascii_chars
                       /\ estimate = IF q + text.n = 0 THEN 1 ELSE q + text.n

\* The summarizer has counted the tokens of a history with a text whose
\* ASCII length is no multiple of four next to non-ASCII characters, with a
\* text of fewer than four characters and with an empty text.
C32_Witness ==
    /\ \E c \in SumCallers : sumCall[c].pc # "idle"
    /\ \E text \in HistoryTexts : (text.a + text.j) % 4 # 0 /\ text.n > 0
    /\ \E text \in HistoryTexts : text.a + text.j \in 1..3 /\ text.n = 0
    /\ EmptyText \in HistoryTexts

(***************************************************************************)
(* Properties of the MCP client's health check.                            *)
(***************************************************************************)
\* C35: when the subprocess of a connected stdio server has exited or
\* closed its stdout, the transport stops reporting is_running, so the
\* client counts the server as disconnected.
C35_DeadTransportNotRunning ==
    (/\ Server \in DOMAIN transports
     /\ transports[Server].kind = "stdio"
     /\ ~transports[Server].alive)
        => ~transports[Server].is_running /\ ~IsConnected(Server)

\* C36: after disconnect(name) has completed no transport for the name is
\* started by the health check or by a reconnect that was waiting out its
\* delay, until connect() is called for it.
C36_StaysDisconnected == ~backoff.restarted

(***************************************************************************)
(* Properties of the stdio transport's request ids and read loop.          *)
(***************************************************************************)
\* C31: on one stdio transport request ids are strictly increasing and
\* never reused, requests reach the server in increasing id order, and each
\* response completes exactly the pending request whose id it carries, at
\* most once, in whatever order the responses arrive.
C31_IdsOrderedResponsesMatched ==
    /\ \A i, j \in 1..Len(stdio.wire) : i < j => stdio.wire[i] < stdio.wire[j]
    /\ \A i \in 1..Len(stdio.wire) : stdio.wire[i] \in 1..stdio.request_id
    /\ Len(stdio.outcome) = stdio.request_id
    /\ \A i \in 1..Len(stdio.delivered) :
          /\ stdio.delivered[i][1] = stdio.delivered[i][2]
          /\ \E k \in 1..Len(stdio.wire) : stdio.wire[k] = stdio.delivered[i][2]
    /\ \A i, j \in 1..Len(stdio.delivered) :
          i # j => stdio.delivered[i][1] # stdio.delivered[j][1]
    /\ \A id \in 1..stdio.request_id :
          stdio.outcome[id].kind = "result"
              => \E i \in 1..Len(stdio.delivered) : stdio.delivered[i] = <<id, id>>

\* Three requests were written and their responses arrived in another
\* order, each completing a request.
C31_Witness ==
    /\ Len(stdio.wire) = 3
    /\ Len(stdio.delivered) = 3
    /\ stdio.delivered[1][2] = 3
    /\ stdio.delivered[2][2] = 1
    /\ stdio.outcome[3].kind = "result"

\* C37: no single line received from the server ends the reader: after a
\* blank line, a line that is not valid JSON, a JSON value that is not an
\* object, a notification, a response with an unknown id or an error
\* response whose error is not an object, the loop reads on, so a later
\* response still completes its request.
C37_NoLineEndsReader == stdio.ended_by # "line"

(***************************************************************************)
(* Properties of the summarizer's initialisation.                          *)
(***************************************************************************)
\* C33: constructing the agent loop, or calling reload_context(), with
\* auto-summary enabled terminates: _init_summarizer returns, and it has
\* then installed exactly one summarizer in the context builder.
C33_InitSummarizerReturnsOnce ==
    /\ skills.pc # "raised"
    /\ skills.installed <= 1
    /\ skills.enabled /\ skills.pc = "ready" => skills.installed = 1

(***************************************************************************)
(* Properties of the git updater's state file and of its statuses.         *)
(***************************************************************************)
\* C38: after the git updater has run and saved its state, a restarted
\* updater with the same configuration restores the repository's persisted
\* state (last_status, updates_applied and the other fields saved with
\* them) from the state file.
C38_RestartRestoresState == git.restarted => git.state = git.persisted

\* C39: a run ends with status updated, increments updates_applied and
\* records last_status "ok" only if every git step it executed succeeded.
C39_UpdatedOnlyAfterSuccess ==
    (git.runs > 0 /\ ~git.restarted
       /\ (git.run.status = "updated" \/ git.run.applied = 1 \/ git.state.last_status = "ok"))
        => ~git.run.failed

(***************************************************************************)
(* Properties of the cron tool next to other writers of the jobs file.     *)
(***************************************************************************)
\* C40: a cron tool add or remove never discards changes another writer
\* made to the jobs file after the tool first loaded it: the file the tool
\* writes contains the job the other writer added.
C40_OtherWritersChangesKept ==
    (/\ cron.foreign
     /\ cron.last.op \in {"add", "remove"}
     /\ Len(cron.last.result) = 2
     /\ cron.last.result[1] \in {"Created scheduled task", "Removed scheduled task"})
        => \E i \in 1..Len(LoadJobs(cron.file)) : LoadJobs(cron.file)[i].id = ForeignJob.id

(***************************************************************************)
(* Properties of the shared tools' routing context.                        *)
(***************************************************************************)
\* C34: throughout the processing of one message, up to the turn's last
\* tool execution, the routing context of the shared message and spawn
\* tools is that message's channel and chat, even when another turn starts
\* while this one is suspended: whenever a turn is executing a tool, the
\* context is the turn's own address.
C34_ToolContextIsTurnsOwn ==
    \A t \in Tasks : task[t].pc = "tool" => tool_ctx = task[t].reply_to

====
